---------------------------- MODULE Spec2Model ----------------------------
(***************************************************************************)
(* State-machine model of the platformer's physics and collision core:     *)
(* Player (applyInput / update / resetToPosition), CollisionEngine          *)
(* (register / unregister / subscribe / unsubscribe / checkCollisions),     *)
(* Entity custom animation as used by coins, and GameModel (loadLevel,      *)
(* clearLevel, resetLevel, nextLevel, restartGame, handleStaticCollision,   *)
(* update, applyPlayerInput, togglePause, removeOldestFrozenClone).        *)
(*                                                                         *)
(* Units.  Time is counted in sixtieths of a second (deltaTime 1/60 s = 1, *)
(* the 1/30 s cap of main.js = 2).  Positions are integer pixels (the code *)
(* rounds them every tick).  Velocities are fixed-point numbers with       *)
(* VelScale units per pixel/second; the only places where the code's       *)
(* floating point is not exact in these units are the friction product and *)
(* the smoothstep gravity blend, which are truncated.                      *)
(*                                                                         *)
(* FrozenClone (constructor timers, startSelfDestruct,                     *)
(* playDestructionAnimation) and GameModel.handlePlaceAction /             *)
(* removeFrozenClone are modelled with the clone timers clocked on frame   *)
(* time (milliseconds converted by Ms).                                    *)
(*                                                                         *)
(* The specifications share the variables:                                 *)
(*   Spec          GameModel driven by frames, inputs, resets and timers   *)
(*   SpecPlayer    the player among static boxes the level may hold        *)
(*   SpecEngine    CollisionEngine driven directly by a client             *)
(*   SpecResolve   handleStaticCollision applied to drawn inputs           *)
(*   SpecVelocity  Player.applyBounce and update on drawn velocities       *)
(*   SpecPlace     GameModel with clones placed, resets and clone timers   *)
(*   SpecLinger    a clone placed at once, then a long run with a reset    *)
(*   SpecDestroy   the destroy callback of a clone invoked at any moment   *)
(*   SpecClone     one FrozenClone through its life (SpecCloneLive: fair)  *)
(*   SpecJump      the player's jump inputs between grounded updates       *)
(*   SpecLevels    GameModel started at any level number                   *)
(*   SpecEnemy     the collision callback against one enemy                *)
(*   SpecEntity    one Entity playing custom animations                    *)
(*   SpecPause     GameModel with togglePause between frames and resets    *)
(*   SpecComplete  a long run over level completion, resets and timers     *)
(*   SpecRemove    removeOldestFrozenClone (SpecRemoveLive: fair)          *)
(***************************************************************************)
EXTENDS Integers, Sequences, FiniteSets, TLC

(***************************************************************************)
(* Bounds of the model                                                     *)
(***************************************************************************)
MaxFrames == 4
MaxInputs == 2
MaxLoads == 1
MaxOps == 5
MaxTicks == 2
MaxPlaceFrames == 32
MaxPlaces == 2
MaxStarts == 1
MaxBounces == 2
MaxDestroys == 2
MaxLingerFrames == 180
MaxSweeps == 3
MaxAnimations == 2
MaxLevelFrames == 10
MaxJumpTicks == 3
MaxJumpInputs == 3
MaxPauseFrames == 2
MaxPauseInputs == 1
MaxPauseLoads == 2
MaxToggles == 2
MaxCompleteFrames == 22
MaxCompleteLoads == 3
MaxRemoveFrames == 260
MaxRequests == 1

(***************************************************************************)
(* Program constants                                                       *)
(***************************************************************************)
VelScale == 12
TicksPerSecond == 60
PlayerSize == 64
CoinSize == 64
TileSize == 50
MaxSpeed == 500
Acceleration == 500
FrictionPercent == 85
JumpVelocity == -700
JumpGravity == 1500
FallGravity == 3000
MaxFallSpeed == 800
GravityTransitionTime == 12
CoyoteTime == 45
CoinFrameCount == 3
CoinFrameSpeed == 6
AnimationSpeed == 9
CoinAnimationFrames == 3
CoinScore == 1
MaxLevel == 3
CloneSize == 64
CloneAnimationSpeed == 6
CloneAnimationFrames == 3
VfxDelay == 150
SelfDestructDelay == 5000
GraceDelay == 600
MaxDestructionAnimations == 5
BaseDelay == 800
DelayStep == 150
MinDelay == 100
PlaceCooldownTime == 60
EnemySize == 20
EnemyPenalty == 10
BounceFactor == 2000
DeltaTimes == {1, 2}
Directions == {"up", "down", "left", "right"}

VARIABLES
    player,            \* Player fields (position, velocity, physics, jump state)
    coins,             \* GameModel.coins
    platforms,         \* GameModel.platforms
    anim,              \* animation state of every coin in coins
    entities,          \* CollisionEngine.entities
    subscriptions,     \* CollisionEngine.subscriptions
    score,             \* GameModel.score
    isGameRunning,     \* GameModel.isGameRunning
    currentLevel,      \* GameModel.currentLevel
    totalCoins,        \* GameModel.totalCoins
    isLevelCompleting, \* GameModel.isLevelCompleting
    timers,            \* pending setTimeout callbacks
    frameDt,           \* deltaTime of the current frame (main.js draw)
    gen,               \* number of level loads so far (object identity of loaded entities)
    frames,            \* number of update() calls made while running
    inputs,            \* number of applyPlayerInput() calls made
    lastOp,            \* the operation that produced this state
    calls,             \* collision callbacks invoked by the last checkCollisions()
    resolved,          \* handleStaticCollision calls made by the last checkCollisions()
    sweepStart,        \* player and engine lists as the last sweep or engine call found them
    airTime,           \* time since a tick took the player off the ground, else -1
    rs,                \* the specification's phase and its count of calls made
    frozenClones,      \* GameModel.frozenClones
    cloneFields,       \* the fields of every FrozenClone constructed so far
    cloneTimers,       \* pending setTimeout callbacks that hold a clone
    placeCooldown,     \* GameModel.placeCooldown, in sixtieths of a second
    cloneLog           \* placements made, clones cleared, blink delays, onDestroy calls

vars == <<player, coins, platforms, anim, entities, subscriptions, score,
          isGameRunning, currentLevel, totalCoins, isLevelCompleting, timers,
          frameDt, gen, frames, inputs, lastOp, calls, resolved, sweepStart,
          airTime, rs, frozenClones, cloneFields, cloneTimers, placeCooldown,
          cloneLog>>

cloneVars == <<frozenClones, cloneFields, cloneTimers, placeCooldown, cloneLog>>

(***************************************************************************)
(* Arithmetic helpers                                                      *)
(***************************************************************************)
Abs(n) == IF n < 0 THEN -n ELSE n

Sign(n) == IF n < 0 THEN -1 ELSE IF n > 0 THEN 1 ELSE 0

Min(a, b) == IF a < b THEN a ELSE b

Max(a, b) == IF a > b THEN a ELSE b

\* sub-pixel units per pixel: a velocity unit moves one sub-pixel per sixtieth
SubPixels == TicksPerSecond * VelScale

\* Math.round(pos + v * deltaTime): round half up; v in velocity units, sub
\* the fractional part pos carries when the tick begins, in sub-pixels
RoundMove(pos, sub, v, dt) ==
    pos + ((2 * (sub + v * dt) + SubPixels) \div (2 * SubPixels))

\* the largest n with n * n * d <= q: floor(sqrt(q / d))
SqrtRatio(q, d, limit) ==
    CHOOSE n \in 0..limit : n * n * d <= q /\ (n + 1) * (n + 1) * d > q

\* v * frictionX, truncated toward zero
Friction(v) == Sign(v) * ((Abs(v) * FrictionPercent) \div 100)

\* Utils.smoothstep(0, 1, min(timer / gravityTransitionTime, 1)) scaled to
\* the velocity gained in dt from the blended part of the gravity
BlendGain(timer, dt) ==
    LET t == Min(timer, GravityTransitionTime)
        denom == GravityTransitionTime * GravityTransitionTime * GravityTransitionTime
        num == t * t * (3 * GravityTransitionTime - 2 * t)
    IN (((FallGravity - JumpGravity) * VelScale * dt * num) \div (TicksPerSecond * denom))

GravityGain(g, dt) == (g * VelScale * dt) \div TicksPerSecond


(***************************************************************************)
(* Entities.  An entity value is its identity: kind, the level load that   *)
(* created it (gen) and its constructor arguments.  The player is the one  *)
(* long-lived object; its position lives in the variable player.           *)
(***************************************************************************)
PlayerEnt == [kind |-> "Player"]

NullEnt == [kind |-> "null"]

MkPlatform(g, r) ==
    [kind |-> "Platform", gen |-> g, x |-> r.x, y |-> r.y, width |-> r.width, height |-> r.height]

MkCoin(g, c) == [kind |-> "Coin", gen |-> g, x |-> c.x, y |-> c.y]

\* new FrozenClone(x, y, ...): the n-th clone the game has placed
MkClone(n, px, py) == [kind |-> "FrozenClone", id |-> n, x |-> px, y |-> py]

\* new Enemy(x, y): the n-th enemy of a level
MkEnemy(n, ex, ey) == [kind |-> "Enemy", id |-> n, x |-> ex, y |-> ey]

\* A client-made entity of SpecEngine: a square of the given size, with or
\* without a Bounds instance
MkProbe(n, px, py, sz, withBounds) ==
    [kind |-> "Probe", id |-> n, x |-> px, y |-> py, size |-> sz, bounds |-> withBounds]

EntX(e, p) == IF e.kind = "Player" THEN p.x ELSE e.x

EntY(e, p) == IF e.kind = "Player" THEN p.y ELSE e.y

\* entity.size: set by Player, Coin, Enemy, FrozenClone and the probes; a
\* Platform has no such field, so reading it yields undefined and the sums
\* below are NaN
HasSize(e) == e.kind \in {"Player", "Coin", "Probe", "FrozenClone", "Enemy"}

SizeOf(e) ==
    CASE e.kind = "Player" -> PlayerSize
      [] e.kind = "Coin" -> CoinSize
      [] e.kind = "FrozenClone" -> CloneSize
      [] e.kind = "Enemy" -> EnemySize
      [] e.kind = "Probe" -> e.size

\* JavaScript numbers as far as isColliding needs them: a value or NaN
Num(v) == [nan |-> FALSE, v |-> v]

PlusSize(pos, e) == IF HasSize(e) THEN Num(pos + SizeOf(e)) ELSE [nan |-> TRUE, v |-> 0]

\* a < b in JavaScript: false as soon as one side is NaN
JsLess(a, b) == ~a.nan /\ ~b.nan /\ a.v < b.v

\* entity && entity.bounds && entity.bounds instanceof Bounds
HasBounds(e) ==
    CASE e.kind = "null" -> FALSE
      [] e.kind = "Probe" -> e.bounds
      [] OTHER -> TRUE

\* Bounds.getCollisionBox(entity)
GetCollisionBox(e, p) ==
    CASE e.kind = "Player" ->
           [x |-> p.x + 12, y |-> p.y + 12, width |-> PlayerSize - 24, height |-> PlayerSize - 12]
      [] e.kind = "Coin" ->
           [x |-> e.x, y |-> e.y, width |-> CoinSize, height |-> CoinSize]
      [] e.kind = "Platform" ->
           [x |-> e.x, y |-> e.y, width |-> e.width, height |-> e.height]
      [] e.kind = "Probe" ->
           [x |-> e.x, y |-> e.y, width |-> e.size, height |-> e.size]
      [] e.kind = "FrozenClone" ->
           [x |-> e.x + 12, y |-> e.y + 12, width |-> CloneSize - 24, height |-> CloneSize - 12]
      [] e.kind = "Enemy" ->
           [x |-> e.x, y |-> e.y, width |-> 0, height |-> 0]

PlayerBoundsOffsetX == 12

PlayerBoundsOffsetY == 12

(***************************************************************************)
(* Player                                                                  *)
(***************************************************************************)
\* new Player(), before any level is loaded
NewPlayer ==
    [x |-> 450, y |-> 450, subx |-> 0, suby |-> 0, vx |-> 0, vy |-> 0,
     onGround |-> FALSE, pastFrameOnGround |-> TRUE,
     coyoteTimer |-> 0, midJump |-> TRUE, jumpKeyHeld |-> FALSE,
     gravityTransitionTimer |-> 0, activeDirections |-> {},
     facingDirection |-> "right", isRunning |-> FALSE]

\* an applyInput that does not clamp
ClampSpeedNever(v) == v

\* the clamp at the end of Player.applyInput
ClampSpeed(v) ==
    IF Abs(v) > MaxSpeed * VelScale THEN Sign(v) * MaxSpeed * VelScale ELSE v

\* the condition under which 'up' starts a jump
CanJump(p) == p.onGround \/ p.coyoteTimer > 0

\* an onJump that is called by every jump
OnJumpCalledByEveryJump(p, direction) == direction = "up" /\ CanJump(p)

\* applyInput(direction) invokes this.onJump: the jump happens and midJump
\* is not set
OnJumpCalled(p, direction) == direction = "up" /\ CanJump(p) /\ ~p.midJump

\* Player.applyInput(direction, deltaTime)
PlayerApplyInput(p, direction, dt) ==
    LET accelerationAmount == (Acceleration * VelScale * dt) \div TicksPerSecond
        tracked == [p EXCEPT !.activeDirections = @ \cup {direction}]
        moved ==
            CASE direction = "up" ->
                   IF CanJump(tracked)
                   THEN [tracked EXCEPT !.vy = JumpVelocity * VelScale,
                                        !.onGround = FALSE,
                                        !.coyoteTimer = 0,
                                        !.midJump = TRUE,
                                        !.jumpKeyHeld = TRUE]
                   ELSE [tracked EXCEPT !.jumpKeyHeld = TRUE]
              [] direction = "down" -> tracked
              [] direction = "left" ->
                   [tracked EXCEPT !.vx = @ - accelerationAmount, !.facingDirection = "left"]
              [] direction = "right" ->
                   [tracked EXCEPT !.vx = @ + accelerationAmount, !.facingDirection = "right"]
    IN [moved EXCEPT !.vx = ClampSpeed(@)]

\* the coyote-timer bookkeeping at the head of Player.update
CoyoteStep(p, dt) ==
    IF p.pastFrameOnGround /\ ~p.onGround
    THEN [p EXCEPT !.coyoteTimer = CoyoteTime]
    ELSE IF ~p.pastFrameOnGround /\ ~p.onGround
         THEN [p EXCEPT !.coyoteTimer = Max(0, @ - dt)]
         ELSE [p EXCEPT !.coyoteTimer = 0, !.midJump = FALSE]

\* a Player.update that remembers the grounded flag but leaves it standing
ResetGroundKept(p) == [p EXCEPT !.pastFrameOnGround = p.onGround]

\* remember the grounded flag, then reset it for the collision pass
ResetGround(p) == [p EXCEPT !.pastFrameOnGround = p.onGround, !.onGround = FALSE]

\* horizontal friction unless the input agrees with the current velocity
HorizontalStep(p) ==
    LET hasLeft == "left" \in p.activeDirections
        hasRight == "right" \in p.activeDirections
        hasValidHorizontalInput ==
            /\ hasLeft \/ hasRight
            /\ ~(hasLeft /\ hasRight)
            /\ ~(hasLeft /\ p.vx > 0)
            /\ ~(hasRight /\ p.vx < 0)
    IN [p EXCEPT !.isRunning = hasLeft \/ hasRight,
                 !.vx = IF hasValidHorizontalInput THEN @ ELSE Friction(@)]

\* variable gravity and the fall-speed cap
GravityStep(p, dt) ==
    LET rising == p.vy < 0
        timer == IF rising
                 THEN IF p.jumpKeyHeld THEN 0 ELSE p.gravityTransitionTimer + dt
                 ELSE p.gravityTransitionTimer
        gain == IF rising
                THEN IF p.jumpKeyHeld
                     THEN GravityGain(JumpGravity, dt)
                     ELSE GravityGain(JumpGravity, dt) + BlendGain(timer, dt)
                ELSE GravityGain(FallGravity, dt)
        v == p.vy + gain
    IN [p EXCEPT !.gravityTransitionTimer = timer,
                 !.vy = IF v > MaxFallSpeed * VelScale THEN MaxFallSpeed * VelScale ELSE v]

\* end of frame: clear the per-frame input state, integrate and round
Integrate(p, dt) ==
    [p EXCEPT !.jumpKeyHeld = FALSE,
              !.activeDirections = {},
              !.x = RoundMove(p.x, p.subx, p.vx, dt),
              !.y = RoundMove(p.y, p.suby, p.vy, dt),
              !.subx = 0, !.suby = 0]

\* Player.update(deltaTime)
PlayerUpdate(p, dt) ==
    Integrate(GravityStep(HorizontalStep(ResetGround(CoyoteStep(p, dt))), dt), dt)

\* the largest r in lo..hi with r * r <= n, found by bisection
RECURSIVE IsqrtIn(_, _, _)
IsqrtIn(n, lo, hi) ==
    IF lo = hi
    THEN lo
    ELSE LET mid == (lo + hi + 1) \div 2
         IN IF mid * mid <= n THEN IsqrtIn(n, mid, hi) ELSE IsqrtIn(n, lo, mid - 1)

\* floor(sqrt(n)) for n below 2^31
Isqrt(n) == IsqrtIn(n, 0, 46340)

\* a bounce that only adds the vector
ApplyBounceUnclamped(p, bx, by) == [p EXCEPT !.vx = @ + bx, !.vy = @ + by]

\* Player.applyBounce(bounceVector): speed is the square root taken to one
\* velocity unit, the quotients are truncated toward zero
ApplyBounce(p, bx, by) ==
    LET vx == p.vx + bx
        vy == p.vy + by
        speed == Isqrt(vx * vx + vy * vy)
        limit == MaxSpeed * VelScale
    IN IF speed > limit
       THEN [p EXCEPT !.vx = Sign(vx) * ((Abs(vx) * limit) \div speed),
                      !.vy = Sign(vy) * ((Abs(vy) * limit) \div speed)]
       ELSE [p EXCEPT !.vx = vx, !.vy = vy]

\* Player.resetToPosition(x, y)
ResetToPosition(p, px, py) ==
    [p EXCEPT !.x = px, !.y = py, !.vx = 0, !.vy = 0,
              !.onGround = FALSE, !.coyoteTimer = 0,
              !.activeDirections = {}, !.jumpKeyHeld = FALSE]


(***************************************************************************)
(* CollisionEngine                                                         *)
(***************************************************************************)
\* a register that pushes whatever it is given
RegisterUnchecked(ents, e) == Append(ents, e)

\* CollisionEngine.register(entity): entities without a Bounds are refused
Register(ents, e) == IF HasBounds(e) THEN Append(ents, e) ELSE ents

\* an unregister that drops only the first occurrence
UnregisterFirst(ents, e) ==
    IF \E k \in DOMAIN ents : ents[k] = e
    THEN LET first == CHOOSE k \in DOMAIN ents : ents[k] = e /\ \A m \in 1..(k - 1) : ents[m] # e
         IN SubSeq(ents, 1, first - 1) \o SubSeq(ents, first + 1, Len(ents))
    ELSE ents

\* CollisionEngine.unregister(entity): filter by identity
Unregister(ents, e) == SelectSeq(ents, LAMBDA x : x # e)

\* CollisionEngine.subscribe(entity, callback)
Subscribe(subs, e, cb) == Append(subs, [entity |-> e, callback |-> cb])

\* CollisionEngine.unsubscribe(entity)
Unsubscribe(subs, e) == SelectSeq(subs, LAMBDA sub : sub.entity # e)

\* an overlap test that takes touching squares for separated
IsCollidingStrict(a, b, p) ==
    ~ \/ ~JsLess(Num(EntX(b, p)), PlusSize(EntX(a, p), a))
      \/ ~JsLess(Num(EntX(a, p)), PlusSize(EntX(b, p), b))
      \/ ~JsLess(Num(EntY(b, p)), PlusSize(EntY(a, p), a))
      \/ ~JsLess(Num(EntY(a, p)), PlusSize(EntY(b, p), b))

\* CollisionEngine.isColliding(entityA, entityB): the squares x..x+size,
\* y..y+size, separated only by a strictly positive gap
IsColliding(a, b, p) ==
    ~ \/ JsLess(PlusSize(EntX(a, p), a), Num(EntX(b, p)))
      \/ JsLess(PlusSize(EntX(b, p), b), Num(EntX(a, p)))
      \/ JsLess(PlusSize(EntY(a, p), a), Num(EntY(b, p)))
      \/ JsLess(PlusSize(EntY(b, p), b), Num(EntY(a, p)))

(***************************************************************************)
(* Entity animation, as far as coins use it                                *)
(***************************************************************************)
\* the animation fields of a freshly constructed Coin
NewCoinAnim ==
    [animationFrame |-> 0, animationTimer |-> 0,
     isPlayingCustomAnimation |-> FALSE, currentFrame |-> 0, timer |-> 0]

\* Entity.playCustomAnimation({onComplete}) with the default configuration
PlayCustomAnimation(a) ==
    [a EXCEPT !.isPlayingCustomAnimation = TRUE, !.currentFrame = 0,
              !.timer = 0, !.animationFrame = 0]

\* a custom animation that ends with its first frame
CustomAnimationCompletesAtOnce(a, dt) ==
    /\ a.isPlayingCustomAnimation
    /\ a.timer + dt >= CoinFrameSpeed

\* Entity.updateCustomAnimation reaches its end in this update
CustomAnimationCompletes(a, dt) ==
    /\ a.isPlayingCustomAnimation
    /\ a.timer + dt >= CoinFrameSpeed
    /\ a.currentFrame + 1 >= CoinFrameCount

\* Entity.update(deltaTime) of a coin
CoinAnimUpdate(a, dt) ==
    IF a.isPlayingCustomAnimation
    THEN IF a.timer + dt >= CoinFrameSpeed
         THEN IF a.currentFrame + 1 >= CoinFrameCount
              THEN [a EXCEPT !.isPlayingCustomAnimation = FALSE,
                             !.currentFrame = 0, !.timer = 0]
              ELSE [a EXCEPT !.currentFrame = @ + 1, !.timer = 0,
                             !.animationFrame = a.currentFrame + 1]
         ELSE [a EXCEPT !.timer = @ + dt]
    ELSE IF a.animationTimer + dt >= AnimationSpeed
         THEN [a EXCEPT !.animationFrame = (@ + 1) % CoinAnimationFrames,
                        !.animationTimer = 0]
         ELSE [a EXCEPT !.animationTimer = @ + dt]

(***************************************************************************)
(* Entity animation in general: the looping animation and custom           *)
(* animations with any configuration.  An onComplete callback is "none"    *)
(* (null), "log" (a callback that touches nothing of the entity) or        *)
(* "replay" (a callback that calls playCustomAnimation on the entity).     *)
(* The operators return the entity together with the callbacks invoked.    *)
(***************************************************************************)
\* this.customAnimation = null
NullAnimation == [null |-> TRUE]

\* the animation fields new Entity(...) sets, with animation enabled or not
\* and a loop callback set or not
NewEntity(enabled, loopCallback) ==
    [animationFrame |-> 0, animationTimer |-> 0, animationSpeed |-> AnimationSpeed,
     maxAnimationFrames |-> 3, animationEnabled |-> enabled,
     animationLoopCallback |-> loopCallback,
     customAnimation |-> NullAnimation, isPlayingCustomAnimation |-> FALSE]

\* the configuration the "replay" callback plays
ReplayConfig ==
    [frameCount |-> 2, frameSpeed |-> 2, startFrame |-> 1, loop |-> FALSE,
     onComplete |-> "log"]

\* Entity.playCustomAnimation(animationConfig); id tells the calls apart
EntityPlayCustomAnimation(e, config, id) ==
    [e EXCEPT !.customAnimation =
                  [null |-> FALSE, id |-> id,
                   frameCount |-> config.frameCount, frameSpeed |-> config.frameSpeed,
                   startFrame |-> config.startFrame, loop |-> config.loop,
                   onComplete |-> config.onComplete,
                   currentFrame |-> config.startFrame, timer |-> 0,
                   hasCompleted |-> FALSE],
              !.isPlayingCustomAnimation = TRUE,
              !.animationFrame = config.startFrame]

\* Entity.stopCustomAnimation()
EntityStopCustomAnimation(e) ==
    IF e.isPlayingCustomAnimation
    THEN [e EXCEPT !.isPlayingCustomAnimation = FALSE, !.customAnimation = NullAnimation]
    ELSE e

\* an animation that ends one frame early
AnimationEndedEarly(ca) == ca.currentFrame + 1 >= ca.startFrame + ca.frameCount

\* currentFrame >= startFrame + frameCount
AnimationEnded(ca) == ca.currentFrame >= ca.startFrame + ca.frameCount

\* the onComplete call and the statement after it: whatever the callback
\* did, customAnimation is set to null
CompleteCustomAnimation(e, ca, nextId) ==
    LET ended == [e EXCEPT !.isPlayingCustomAnimation = FALSE,
                           !.customAnimation = [ca EXCEPT !.hasCompleted = TRUE]]
        called ==
            CASE ca.onComplete = "log" ->
                   [entity |-> ended, events |-> <<[ev |-> "complete", id |-> ca.id]>>]
              [] ca.onComplete = "replay" ->
                   [entity |-> EntityPlayCustomAnimation(ended, ReplayConfig, nextId),
                    events |-> <<[ev |-> "complete", id |-> ca.id],
                                 [ev |-> "play", id |-> nextId]>>]
              [] OTHER -> [entity |-> ended, events |-> <<>>]
    IN [called EXCEPT !.entity.customAnimation = NullAnimation]

\* Entity.updateCustomAnimation(deltaTime)
EntityUpdateCustomAnimation(e, dt, nextId) ==
    LET ca == e.customAnimation
        advanced == [ca EXCEPT !.currentFrame = @ + 1, !.timer = 0]
    IN IF ca.null
       THEN [entity |-> e, events |-> <<>>]
       ELSE
       IF ca.timer + dt >= ca.frameSpeed
       THEN IF AnimationEnded(advanced)
            THEN IF ca.loop
                 THEN [entity |-> [e EXCEPT !.customAnimation =
                                                [advanced EXCEPT !.currentFrame = ca.startFrame],
                                            !.animationFrame = ca.startFrame],
                       events |-> <<>>]
                 ELSE CompleteCustomAnimation(e, advanced, nextId)
            ELSE [entity |-> [e EXCEPT !.customAnimation = advanced,
                                       !.animationFrame = advanced.currentFrame],
                  events |-> <<>>]
       ELSE [entity |-> [e EXCEPT !.customAnimation.timer = @ + dt], events |-> <<>>]

\* Entity.updateAnimation(deltaTime)
EntityUpdateAnimation(e, dt) ==
    IF e.animationTimer + dt >= e.animationSpeed
    THEN LET frame == (e.animationFrame + 1) % e.maxAnimationFrames
         IN [entity |-> [e EXCEPT !.animationFrame = frame, !.animationTimer = 0],
             events |-> IF frame = 0 /\ e.animationLoopCallback # "none"
                        THEN <<[ev |-> "loop"]>>
                        ELSE <<>>]
    ELSE [entity |-> [e EXCEPT !.animationTimer = @ + dt], events |-> <<>>]

\* this.isPlayingCustomAnimation && this.customAnimation
CustomAnimationRuns(e) == e.isPlayingCustomAnimation /\ ~e.customAnimation.null

\* Entity.update(deltaTime)
EntityUpdate(e, dt, nextId) ==
    IF CustomAnimationRuns(e)
    THEN EntityUpdateCustomAnimation(e, dt, nextId)
    ELSE IF e.animationEnabled
         THEN EntityUpdateAnimation(e, dt)
         ELSE [entity |-> e, events |-> <<>>]

(***************************************************************************)
(* FrozenClone.  The clone-related part of the game is handed through the  *)
(* operators below as a record cm: frozenClones, entities, fields (of each *)
(* clone), timers (pending setTimeout callbacks) and log.  A timer's left  *)
(* is the frame time until it is due: main.js hands the elapsed wall time  *)
(* to update() as deltaTime, so a timer set for d ms fires between two     *)
(* frames once d ms of frame time have passed.                             *)
(***************************************************************************)
\* milliseconds in sixtieths of a second
Ms(ms) == (ms * TicksPerSecond) \div 1000

CloneTimer(kind, c, ms) == [kind |-> kind, clone |-> c, left |-> Ms(ms)]

\* the fields the FrozenClone constructor leaves
NewCloneFields ==
    [boundsEnabled |-> TRUE, vfxAlpha |-> 0, animationEnabled |-> FALSE,
     animationFrame |-> 0, animationTimer |-> 0, animationLoopCallback |-> "vfx",
     isMarkedForDestruction |-> FALSE, destructionAnimationCount |-> 0]

NewCloneLog == [places |-> 0, sincePlace |-> -1, cleared |-> {},
                delays |-> <<>>, destroyed |-> <<>>, started |-> <<>>]

CloneModel(fcs, ents, fields, ts, log) ==
    [frozenClones |-> fcs, entities |-> ents, fields |-> fields, timers |-> ts, log |-> log]

\* the constructor: the fields and the two timers it sets
ConstructClone(cm, c) ==
    [cm EXCEPT !.fields = [d \in DOMAIN @ \cup {c} |-> IF d = c THEN NewCloneFields ELSE @[d]],
               !.timers = @ \o <<CloneTimer("vfx", c, VfxDelay),
                                  CloneTimer("selfDestruct", c, SelfDestructDelay)>>]

\* a removal by splice(indexOf(clone), 1): an index of -1 takes the last entry
RemoveFrozenCloneSplice(cm, c) ==
    LET splice(q) == IF \E k \in DOMAIN q : q[k] = c
                     THEN SelectSeq(q, LAMBDA d : d # c)
                     ELSE SubSeq(q, 1, Len(q) - 1)
    IN [cm EXCEPT !.entities = splice(@), !.frozenClones = splice(@)]

\* GameModel.removeFrozenClone(clone)
RemoveFrozenClone(cm, c) ==
    [cm EXCEPT !.entities = Unregister(@, c),
               !.frozenClones = SelectSeq(@, LAMBDA d : d # c)]

\* the onDestroy callback handlePlaceAction hands to the constructor
OnDestroy(cm, c) ==
    RemoveFrozenClone(
        [cm EXCEPT !.log.destroyed = Append(@, c)], c)


\* destructionAnimationCount < maxDestructionAnimations
NextBlink(count) == count < MaxDestructionAnimations

\* Math.max(baseDelay - destructionAnimationCount * 150, 100)
BlinkDelay(count) == Max(BaseDelay - count * DelayStep, MinDelay)

\* FrozenClone.playDestructionAnimation()
PlayDestructionAnimation(cm, c) ==
    [cm EXCEPT !.fields[c].destructionAnimationCount = @ + 1,
               !.fields[c].vfxAlpha = 255,
               !.fields[c].animationEnabled = TRUE,
               !.fields[c].animationLoopCallback = "destruct"]

\* a start that does not look at the flag
StartSelfDestructAgain(cm, c) ==
    PlayDestructionAnimation(
        [cm EXCEPT !.fields[c].isMarkedForDestruction = TRUE,
                   !.fields[c].destructionAnimationCount = 0,
                   !.log.started = Append(@, c)], c)

\* FrozenClone.startSelfDestruct()
StartSelfDestruct(cm, c) ==
    IF cm.fields[c].isMarkedForDestruction
    THEN cm
    ELSE PlayDestructionAnimation(
             [cm EXCEPT !.fields[c].isMarkedForDestruction = TRUE,
                        !.fields[c].destructionAnimationCount = 0,
                        !.log.started = Append(@, c)], c)

\* a removal callback that stops the animation and leaves the clone
RemoveCallbackKeepsClone(cm, c) ==
    [cm EXCEPT !.fields[c].vfxAlpha = 0, !.fields[c].animationEnabled = FALSE]

\* the closure removeOldestFrozenClone() sets as animationLoopCallback
RemoveCallback(cm, c) ==
    RemoveFrozenClone(
        [cm EXCEPT !.fields[c].vfxAlpha = 0, !.fields[c].animationEnabled = FALSE], c)

\* GameModel.removeOldestFrozenClone()
RemoveOldestFrozenClone(cm) ==
    IF Len(cm.frozenClones) > 0
    THEN LET oldestClone == cm.frozenClones[1]
         IN [cm EXCEPT !.fields[oldestClone].vfxAlpha = 255,
                       !.fields[oldestClone].animationEnabled = TRUE,
                       !.fields[oldestClone].animationLoopCallback = "remove"]
    ELSE cm

\* this.animationLoopCallback(): the closure the constructor sets ("vfx"),
\* the one removeOldestFrozenClone sets ("remove") or the one
\* playDestructionAnimation sets ("destruct")
AnimationLoopCallback(cm, c) ==
    LET off == [cm EXCEPT !.fields[c].vfxAlpha = 0, !.fields[c].animationEnabled = FALSE]
        count == cm.fields[c].destructionAnimationCount
    IN CASE cm.fields[c].animationLoopCallback = "vfx" -> off
         [] cm.fields[c].animationLoopCallback = "remove" -> RemoveCallback(cm, c)
         [] OTHER ->
              IF NextBlink(count)
              THEN [off EXCEPT !.timers = Append(@, CloneTimer("blink", c, BlinkDelay(count))),
                               !.log.delays = Append(@, [clone |-> c, ms |-> BlinkDelay(count)])]
              ELSE OnDestroy(off, c)

\* FrozenClone.update(deltaTime): Entity.update, Entity.updateAnimation
CloneUpdate(cm, c, dt) ==
    LET f == cm.fields[c]
    IN IF ~f.animationEnabled
       THEN cm
       ELSE IF f.animationTimer + dt >= CloneAnimationSpeed
            THEN LET frame == (f.animationFrame + 1) % CloneAnimationFrames
                     stepped == [cm EXCEPT !.fields[c].animationFrame = frame,
                                           !.fields[c].animationTimer = 0]
                 IN IF frame = 0 THEN AnimationLoopCallback(stepped, c) ELSE stepped
            ELSE [cm EXCEPT !.fields[c].animationTimer = @ + dt]

\* the loop of GameModel.update over the frozenClones array it began with
RECURSIVE UpdateClones(_, _, _, _)
UpdateClones(cm, fcs, k, dt) ==
    IF k > Len(fcs) THEN cm ELSE UpdateClones(CloneUpdate(cm, fcs[k], dt), fcs, k + 1, dt)

\* frame time passes for the pending timers
TimersAfter(ts, dt) == [k \in DOMAIN ts |-> [ts[k] EXCEPT !.left = @ - dt]]

\* the timer that fires next, 0 if none is due
DueTimer(ts) ==
    IF \E k \in DOMAIN ts : ts[k].left <= 0
    THEN CHOOSE k \in DOMAIN ts :
             /\ ts[k].left <= 0
             /\ \A m \in DOMAIN ts :
                    \/ ts[m].left > ts[k].left
                    \/ ts[m].left = ts[k].left /\ m >= k
    ELSE 0

\* the callback of a clone's timer
CloneTimerCallback(cm, t) ==
    CASE t.kind = "vfx" ->
           [cm EXCEPT !.fields[t.clone].vfxAlpha = 255,
                      !.fields[t.clone].animationEnabled = TRUE]
      [] t.kind = "grace" -> [cm EXCEPT !.fields[t.clone].boundsEnabled = TRUE]
      [] t.kind = "selfDestruct" -> StartSelfDestruct(cm, t.clone)
      [] OTHER -> PlayDestructionAnimation(cm, t.clone)

(***************************************************************************)
(* GameModel: collision response                                           *)
(***************************************************************************)
\* the two overlap depths handleStaticCollision computes
OverlapX(pb, sb) == Min(pb.x + pb.width - sb.x, sb.x + sb.width - pb.x)

OverlapY(pb, sb) == Min(pb.y + pb.height - sb.y, sb.y + sb.height - pb.y)

\* a horizontal resolution that stops the player on both axes
HandleStaticCollisionStopAll(p, sb) ==
    LET pb == GetCollisionBox(PlayerEnt, p)
    IN IF OverlapX(pb, sb) < OverlapY(pb, sb)
       THEN IF pb.x < sb.x
            THEN [p EXCEPT !.x = sb.x - pb.width - PlayerBoundsOffsetX, !.vx = 0, !.vy = 0]
            ELSE [p EXCEPT !.x = sb.x + sb.width - PlayerBoundsOffsetX, !.vx = 0, !.vy = 0]
       ELSE IF pb.y < sb.y
            THEN [p EXCEPT !.y = sb.y - pb.height - PlayerBoundsOffsetY,
                           !.onGround = TRUE, !.vy = 0]
            ELSE [p EXCEPT !.y = sb.y + sb.height - PlayerBoundsOffsetY, !.vy = 0]

\* a vertical resolution that grounds the player under a ceiling too
HandleStaticCollisionGroundBoth(p, sb) ==
    LET pb == GetCollisionBox(PlayerEnt, p)
    IN IF OverlapX(pb, sb) < OverlapY(pb, sb)
       THEN IF pb.x < sb.x
            THEN [p EXCEPT !.x = sb.x - pb.width - PlayerBoundsOffsetX, !.vx = 0]
            ELSE [p EXCEPT !.x = sb.x + sb.width - PlayerBoundsOffsetX, !.vx = 0]
       ELSE IF pb.y < sb.y
            THEN [p EXCEPT !.y = sb.y - pb.height - PlayerBoundsOffsetY,
                           !.onGround = TRUE, !.vy = 0]
            ELSE [p EXCEPT !.y = sb.y + sb.height - PlayerBoundsOffsetY,
                           !.onGround = TRUE, !.vy = 0]

\* a resolution that places the player's position, not its box, against the
\* static box
HandleStaticCollisionNoOffset(p, sb) ==
    LET pb == GetCollisionBox(PlayerEnt, p)
    IN IF OverlapX(pb, sb) < OverlapY(pb, sb)
       THEN IF pb.x < sb.x
            THEN [p EXCEPT !.x = sb.x - pb.width, !.vx = 0]
            ELSE [p EXCEPT !.x = sb.x + sb.width, !.vx = 0]
       ELSE IF pb.y < sb.y
            THEN [p EXCEPT !.y = sb.y - pb.height, !.onGround = TRUE, !.vy = 0]
            ELSE [p EXCEPT !.y = sb.y + sb.height, !.vy = 0]

\* a resolution that takes equal overlaps for a horizontal collision
HandleStaticCollisionTieHorizontal(p, sb) ==
    LET pb == GetCollisionBox(PlayerEnt, p)
    IN IF OverlapX(pb, sb) <= OverlapY(pb, sb)
       THEN IF pb.x < sb.x
            THEN [p EXCEPT !.x = sb.x - pb.width - PlayerBoundsOffsetX, !.vx = 0]
            ELSE [p EXCEPT !.x = sb.x + sb.width - PlayerBoundsOffsetX, !.vx = 0]
       ELSE IF pb.y < sb.y
            THEN [p EXCEPT !.y = sb.y - pb.height - PlayerBoundsOffsetY,
                           !.onGround = TRUE, !.vy = 0]
            ELSE [p EXCEPT !.y = sb.y + sb.height - PlayerBoundsOffsetY, !.vy = 0]

\* GameModel.handleStaticCollision(player, entity), sb the entity's collision box
HandleStaticCollision(p, sb) ==
    LET pb == GetCollisionBox(PlayerEnt, p)
    IN IF OverlapX(pb, sb) < OverlapY(pb, sb)
       THEN IF pb.x < sb.x
            THEN [p EXCEPT !.x = sb.x - pb.width - PlayerBoundsOffsetX, !.vx = 0]
            ELSE [p EXCEPT !.x = sb.x + sb.width - PlayerBoundsOffsetX, !.vx = 0]
       ELSE IF pb.y < sb.y
            THEN [p EXCEPT !.y = sb.y - pb.height - PlayerBoundsOffsetY,
                           !.onGround = TRUE, !.vy = 0]
            ELSE [p EXCEPT !.y = sb.y + sb.height - PlayerBoundsOffsetY, !.vy = 0]

\* the record handed through one checkCollisions() pass
SweepState(p, cs, an, ents, subs, sc) ==
    [player |-> p, coins |-> cs, anim |-> an, entities |-> ents,
     subscriptions |-> subs, score |-> sc, calls |-> <<>>, resolved |-> <<>>,
     bounces |-> <<>>]

\* a bounce that is applied whatever the distance is
BounceAppliesAlways(d2) == TRUE

\* distance > 0, d2 the squared distance
BounceApplies(d2) == d2 > 0

\* (dx / distance) * bounceFactor and (dy / distance) * bounceFactor in
\* velocity units; the distance is the square root taken to a hundredth of
\* a pixel, the quotients are truncated toward zero; 0 / 0 is NaN
BounceVector(dx, dy) ==
    LET distance == Isqrt((dx * dx + dy * dy) * 10000)
        part(d) == Sign(d) * ((Abs(d) * BounceFactor * VelScale * 100) \div distance)
    IN IF distance = 0
       THEN [nan |-> TRUE, x |-> 0, y |-> 0]
       ELSE [nan |-> FALSE, x |-> part(dx), y |-> part(dy)]

\* the enemy branch of the player's callback
EnemyCollision(st, e) ==
    LET dx == st.player.x - e.x
        dy == st.player.y - e.y
        sb == GetCollisionBox(e, st.player)
        stopped == HandleStaticCollision(st.player, sb)
        vector == BounceVector(dx, dy)
        bounced == IF vector.nan THEN stopped ELSE ApplyBounce(stopped, vector.x, vector.y)
        hit == [st EXCEPT !.score = @ - EnemyPenalty,
                          !.resolved = Append(@, [before |-> st.player, box |-> sb,
                                                  after |-> stopped])]
    IN IF BounceApplies(dx * dx + dy * dy)
       THEN [hit EXCEPT !.player = bounced, !.bounces = Append(@, vector)]
       ELSE [hit EXCEPT !.player = stopped]

\* the callback GameModel.loadLevel subscribes for the player
PlayerCollisionCallback(st, e) ==
    CASE e.kind = "Coin" ->
           [st EXCEPT !.entities = Unregister(@, e),
                      !.anim = [c \in DOMAIN @ |->
                                   IF c = e THEN PlayCustomAnimation(@[c]) ELSE @[c]],
                      !.score = @ + CoinScore]
      [] e.kind \in {"Platform", "FrozenClone"} ->
           LET sb == GetCollisionBox(e, st.player)
               after == HandleStaticCollision(st.player, sb)
           IN [st EXCEPT !.player = after,
                         !.resolved = Append(@, [before |-> st.player, box |-> sb,
                                                 after |-> after])]
      [] e.kind = "Enemy" -> EnemyCollision(st, e)
      [] OTHER -> st

\* one subscription callback invoked with the counterpart e
InvokeCallback(st, sub, e) ==
    LET logged == [st EXCEPT !.calls = Append(@, [entity |-> sub.entity, with |-> e])]
    IN CASE sub.callback = "player" -> PlayerCollisionCallback(logged, e)
         [] sub.callback = "unregister" -> [logged EXCEPT !.entities = Unregister(@, e)]
         [] OTHER -> logged

\* CollisionEngine.handleCollision(entityA, entityB): the loop runs over the
\* subscription array as it was when the loop began
RECURSIVE HandleCollision(_, _, _, _, _)
HandleCollision(st, subs, k, a, b) ==
    IF k > Len(subs)
    THEN st
    ELSE LET s1 == IF subs[k].entity = a THEN InvokeCallback(st, subs[k], b) ELSE st
             s2 == IF subs[k].entity = b THEN InvokeCallback(s1, subs[k], a) ELSE s1
         IN HandleCollision(s2, subs, k + 1, a, b)

\* CollisionEngine.checkCollisions(): both loops re-read this.entities, which
\* a callback may have replaced by a shorter array
RECURSIVE CheckCollisions(_, _, _)
CheckCollisions(st, i, j) ==
    IF i > Len(st.entities)
    THEN st
    ELSE IF j > Len(st.entities)
         THEN CheckCollisions(st, i + 1, i + 2)
         ELSE LET a == st.entities[i]
                  b == st.entities[j]
                  next == IF IsColliding(a, b, st.player)
                          THEN HandleCollision(st, st.subscriptions, 1, a, b)
                          ELSE st
              IN CheckCollisions(next, i, j + 1)


(***************************************************************************)
(* Levels.  A level is what LevelParser.parseLevel returns for its string: *)
(* the player's spawn, the merged platform rectangles and the coins, all   *)
(* on the 50-pixel tile grid.                                              *)
(***************************************************************************)
Rect(tx, ty, tw, th) ==
    [x |-> tx * TileSize, y |-> ty * TileSize, width |-> tw * TileSize, height |-> th * TileSize]

Tile(tx, ty) == [x |-> tx * TileSize, y |-> ty * TileSize]

\*   . . . .        . . . .        . . . .
\*   . P C .        . P . C        . . P .
\*   # # # .        . # . .        . # # .
Level1 == [player |-> Tile(1, 1), platforms |-> <<Rect(0, 2, 3, 1)>>, coins |-> <<Tile(2, 1)>>]

Level2 == [player |-> Tile(1, 1), platforms |-> <<Rect(1, 2, 1, 1)>>, coins |-> <<Tile(3, 1)>>]

Level3 == [player |-> Tile(2, 1), platforms |-> <<Rect(1, 2, 2, 1)>>, coins |-> <<>>]

\* a getLevel that has a spawn and nothing else for an unknown number
GetLevelOrNothing(n) ==
    CASE n = 1 -> Level1
      [] n = 2 -> Level2
      [] n = 3 -> Level3
      [] OTHER -> [player |-> Tile(1, 1), platforms |-> <<>>, coins |-> <<>>]

\* LevelDefinitions.getLevel(levelNumber): unknown numbers fall back to level 1
GetLevel(n) ==
    CASE n = 1 -> Level1
      [] n = 2 -> Level2
      [] n = 3 -> Level3
      [] OTHER -> Level1

\* anchors[0]: the anchor loadLevel puts 50 pixels above the spawn
Anchor(level) == [x |-> GetLevel(level).player.x, y |-> GetLevel(level).player.y - 50]

(***************************************************************************)
(* GameModel                                                               *)
(***************************************************************************)
SeqToSet(q) == {q[k] : k \in DOMAIN q}

RECURSIVE RegisterAll(_, _, _)
RegisterAll(ents, q, k) ==
    IF k > Len(q) THEN ents ELSE RegisterAll(Register(ents, q[k]), q, k + 1)

RECURSIVE UnregisterAll(_, _, _)
UnregisterAll(ents, q, k) ==
    IF k > Len(q) THEN ents ELSE UnregisterAll(Unregister(ents, q[k]), q, k + 1)

\* GameModel.isBoxIntersecting(box1, box2)
IsBoxIntersecting(b1, b2) ==
    /\ b1.x < b2.x + b2.width
    /\ b1.x + b1.width > b2.x
    /\ b1.y < b2.y + b2.height
    /\ b1.y + b1.height > b2.y

\* GameModel.logPlayerIntersections(): while the player's box cuts into a
\* platform the player is pulled toward the first anchor at 25 pixels per
\* second of frame time
LogPlayerIntersections(p, plats, anchor, dt) ==
    LET pb == GetCollisionBox(PlayerEnt, p)
        hit == \E k \in DOMAIN plats : IsBoxIntersecting(pb, GetCollisionBox(plats[k], p))
        dx == anchor.x - p.x
        dy == anchor.y - p.y
        d2 == dx * dx + dy * dy
        step == 25 * VelScale * dt
        part(c) == Sign(c) * SqrtRatio(step * step * c * c, d2, step)
    IN IF hit /\ d2 > 0
       THEN [p EXCEPT !.subx = part(dx), !.suby = part(dy)]
       ELSE p

\* GameModel.clearLevel() followed by the entity creation and registration
\* of GameModel.loadLevel(levelString, setupHandlers)
LoadLevel(level, g, setupHandlers, p, cs, ps, ents, subs) ==
    LET def == GetLevel(level)
        cleared == UnregisterAll(UnregisterAll(ents, cs, 1), ps, 1)
        newPlatforms == [k \in DOMAIN def.platforms |-> MkPlatform(g, def.platforms[k])]
        newCoins == [k \in DOMAIN def.coins |-> MkCoin(g, def.coins[k])]
        registered ==
            RegisterAll(RegisterAll(Register(cleared, PlayerEnt), newCoins, 1), newPlatforms, 1)
    IN [player |-> ResetToPosition(p, def.player.x, def.player.y),
        coins |-> newCoins,
        platforms |-> newPlatforms,
        anim |-> [c \in SeqToSet(newCoins) |-> NewCoinAnim],
        entities |-> registered,
        subscriptions |-> IF setupHandlers THEN Subscribe(subs, PlayerEnt, "player") ELSE subs,
        score |-> 0]


\* setTimeout(callback, delay): the pending callbacks in creation order
Timer(kind, delay, wasRunning) == [kind |-> kind, delay |-> delay, wasRunning |-> wasRunning]

\* a pending timer can be the next to fire unless an older one is due no later
CanFire(ts, k) == \A m \in 1..(k - 1) : ts[m].delay > ts[k].delay

RemoveAt(q, k) == SubSeq(q, 1, k - 1) \o SubSeq(q, k + 1, Len(q))

NoSweep == [player |-> NewPlayer, entities |-> <<>>, subscriptions |-> <<>>]

NoRs == [phase |-> "none"]

\* the state after new GameModel() and init(), currentLevel being level
\* when init() is called
InitLoadedAt(loaded, level) ==
    /\ player = loaded.player
    /\ coins = loaded.coins
    /\ platforms = loaded.platforms
    /\ anim = loaded.anim
    /\ entities = loaded.entities
    /\ subscriptions = loaded.subscriptions
    /\ score = 0
    /\ isGameRunning = TRUE
    /\ currentLevel = level
    /\ totalCoins = Len(loaded.coins)
    /\ isLevelCompleting = FALSE
    /\ timers = <<>>
    /\ frameDt = 1
    /\ gen = 1
    /\ frames = 0
    /\ inputs = 0
    /\ lastOp = [op |-> "init"]
    /\ calls = <<>>
    /\ resolved = <<>>
    /\ sweepStart = NoSweep
    /\ airTime = -1
    /\ frozenClones = <<>>
    /\ cloneFields = <<>>
    /\ cloneTimers = <<>>
    /\ placeCooldown = 0
    /\ cloneLog = NewCloneLog

\* the state after new GameModel() and init()
InitLoaded(loaded) == InitLoadedAt(loaded, 1)

Init ==
    /\ InitLoaded(LoadLevel(1, 1, TRUE, NewPlayer, <<>>, <<>>, <<>>, <<>>))
    /\ rs = NoRs

\* the time since a tick took the player off the ground (-1: on the ground, or
\* in the air by a jump or a respawn), after a tick that took the grounded
\* flag from before to after
AirTimeAfter(before, after, elapsed) ==
    IF after THEN -1
    ELSE IF before THEN 0
    ELSE IF airTime < 0 THEN -1
    ELSE airTime + elapsed

\* the number of running frames a specification follows
FrameLimit ==
    CASE rs.phase = "place" -> MaxPlaceFrames
      [] rs.phase = "levels" -> MaxLevelFrames
      [] rs.phase = "pause" -> MaxPauseFrames
      [] rs.phase = "complete" -> MaxCompleteFrames
      [] rs.phase = "remove" -> MaxRemoveFrames
      [] rs.phase = "linger" -> MaxLingerFrames
      [] OTHER -> MaxFrames

\* the number of inputs a specification follows
InputLimit == IF rs.phase = "pause" THEN MaxPauseInputs ELSE MaxInputs

\* the number of level loads a specification follows
LoadLimit ==
    CASE rs.phase = "pause" -> MaxPauseLoads
      [] rs.phase = "complete" -> MaxCompleteLoads
      [] OTHER -> MaxLoads

\* an update and applyPlayerInput that never return early
GameRunningAnyway(running) == TRUE

\* the test at the head of update and applyPlayerInput:
\* if (!this.isGameRunning) return
GameRunning(running) == running

\* GameModel.update(deltaTime), called by the frame that ends a frame time of
\* deltaTime; the timers that came due before it have fired
Update(dt) ==
    /\ frames < FrameLimit
    /\ DueTimer(cloneTimers) = 0
    /\ lastOp' = [op |-> "update", dt |-> dt, ran |-> isGameRunning]
    /\ IF ~GameRunning(isGameRunning)
       THEN /\ calls' = <<>>
            /\ resolved' = <<>>
            /\ sweepStart' = NoSweep
            /\ cloneTimers' = TimersAfter(cloneTimers, dt)
            /\ UNCHANGED <<player, coins, platforms, anim, entities, subscriptions, score,
                           isGameRunning, currentLevel, totalCoins, isLevelCompleting,
                           timers, frameDt, gen, frames, inputs, airTime, rs,
                           frozenClones, cloneFields, placeCooldown, cloneLog>>
       ELSE LET enabledClones ==
                    SelectSeq(frozenClones, LAMBDA c : cloneFields[c].boundsEnabled)
                nudged == LogPlayerIntersections(player, platforms \o enabledClones,
                                                 Anchor(currentLevel), dt)
                moved == PlayerUpdate(nudged, dt)
                done == {c \in SeqToSet(coins) : CustomAnimationCompletes(anim[c], dt)}
                keptCoins == SelectSeq(coins, LAMBDA c : c \notin done)
                keptAnim == [c \in SeqToSet(keptCoins) |-> CoinAnimUpdate(anim[c], dt)]
                cm == UpdateClones(
                          CloneModel(frozenClones, entities, cloneFields,
                                     TimersAfter(cloneTimers, dt), cloneLog),
                          frozenClones, 1, dt)
                st == CheckCollisions(
                          SweepState(moved, keptCoins, keptAnim, cm.entities, subscriptions,
                                     score),
                          1, 2)
                completes == Len(st.coins) = 0 /\ totalCoins > 0 /\ ~isLevelCompleting
            IN /\ player' = st.player
               /\ coins' = st.coins
               /\ anim' = st.anim
               /\ entities' = st.entities
               /\ subscriptions' = st.subscriptions
               /\ score' = st.score
               /\ calls' = st.calls
               /\ resolved' = st.resolved
               /\ sweepStart' = [player |-> moved, entities |-> cm.entities,
                                  subscriptions |-> subscriptions]
               /\ isLevelCompleting' = (isLevelCompleting \/ completes)
               /\ timers' = IF completes
                            THEN Append(timers,
                                        IF currentLevel < MaxLevel
                                        THEN Timer("nextLevel", 1500, TRUE)
                                        ELSE Timer("restartGame", 2000, TRUE))
                            ELSE timers
               /\ frames' = frames + 1
               /\ frameDt' = dt
               /\ airTime' = AirTimeAfter(player.onGround, st.player.onGround, dt)
               /\ frozenClones' = cm.frozenClones
               /\ cloneFields' = cm.fields
               /\ cloneTimers' = cm.timers
               /\ placeCooldown' = Max(placeCooldown - dt, 0)
               /\ cloneLog' = [cm.log EXCEPT
                                  !.sincePlace = IF @ < 0 THEN @
                                                 ELSE Min(@ + dt, PlaceCooldownTime)]
               /\ UNCHANGED <<platforms, isGameRunning, currentLevel, totalCoins,
                              gen, inputs, rs>>

\* GameModel.applyPlayerInput(direction, deltaTime); the controller applies
\* each held direction once per frame
ApplyPlayerInput(direction) ==
    /\ inputs < InputLimit
    /\ direction \notin player.activeDirections
    /\ lastOp' = [op |-> "input", direction |-> direction, ran |-> isGameRunning]
    /\ inputs' = inputs + 1
    /\ player' = IF GameRunning(isGameRunning)
                 THEN PlayerApplyInput(player, direction, frameDt)
                 ELSE player
    /\ airTime' = IF GameRunning(isGameRunning) /\ direction = "up" /\ CanJump(player)
                  THEN -1
                  ELSE airTime
    /\ calls' = <<>>
    /\ resolved' = <<>>
    /\ sweepStart' = NoSweep
    /\ UNCHANGED <<coins, platforms, anim, entities, subscriptions, score, isGameRunning,
                   currentLevel, totalCoins, isLevelCompleting, timers, frameDt,
                   gen, frames, rs, cloneVars>>

\* a clearLevel that leaves the clones in the engine
ClearClonesKept(ents, fcs, preserveClones) == ents

\* GameModel.clearLevel(preserveClones): the engine's list without the clones
ClearClones(ents, fcs, preserveClones) ==
    IF preserveClones THEN ents ELSE UnregisterAll(ents, fcs, 1)

\* the shared body of resetLevel(), nextLevel() and restartGame(): suspend,
\* reload the level without new handlers, schedule the resume
Reload(level, delay, op, preserveClones) ==
    LET wasRunning == isGameRunning
        kept == ClearClones(entities, frozenClones, preserveClones)
        loaded == LoadLevel(level, gen + 1, FALSE, player, coins, platforms,
                            kept, subscriptions)
    IN /\ frozenClones' = IF preserveClones THEN frozenClones ELSE <<>>
       /\ cloneLog' = [cloneLog EXCEPT
                          !.cleared = IF preserveClones THEN @ ELSE @ \cup SeqToSet(frozenClones)]
       /\ UNCHANGED <<cloneFields, cloneTimers, placeCooldown>>
       /\ player' = loaded.player
       /\ coins' = loaded.coins
       /\ platforms' = loaded.platforms
       /\ anim' = loaded.anim
       /\ entities' = loaded.entities
       /\ subscriptions' = loaded.subscriptions
       /\ score' = loaded.score
       /\ isGameRunning' = TRUE
       /\ currentLevel' = level
       /\ totalCoins' = Len(loaded.coins)
       /\ isLevelCompleting' = FALSE
       /\ gen' = gen + 1
       /\ lastOp' = [op |-> op]
       /\ calls' = <<>>
       /\ resolved' = <<>>
       /\ sweepStart' = NoSweep
       /\ airTime' = -1
       /\ UNCHANGED <<frameDt, frames, inputs, rs>>

\* GameModel.resetLevel()
ResetLevel ==
    /\ gen <= LoadLimit
    /\ Reload(currentLevel, 50, "resetLevel", FALSE)
    /\ timers' = Append(timers, Timer("resume", 50, isGameRunning))

\* a pending timer fires
FireTimer ==
    \E k \in DOMAIN timers :
        /\ CanFire(timers, k)
        /\ CASE timers[k].kind = "resume" ->
                  /\ isGameRunning' = timers[k].wasRunning
                  /\ timers' = RemoveAt(timers, k)
                  /\ lastOp' = [op |-> "resume"]
                  /\ calls' = <<>>
                  /\ resolved' = <<>>
                  /\ sweepStart' = NoSweep
                  /\ UNCHANGED <<player, coins, platforms, anim, entities, subscriptions,
                                 score, currentLevel, totalCoins, isLevelCompleting,
                                 frameDt, gen, frames, inputs, airTime, rs, cloneVars>>
             [] timers[k].kind = "nextLevel" ->
                  \* GameModel.nextLevel(); what shouldPreserveClones answers
                  \* is the level definitions' choice
                  IF currentLevel < MaxLevel /\ gen <= LoadLimit
                  THEN /\ \E preserveClones \in BOOLEAN :
                              Reload(currentLevel + 1, 100, "nextLevel", preserveClones)
                       /\ timers' = Append(RemoveAt(timers, k),
                                           Timer("resume", 100, isGameRunning))
                  ELSE /\ timers' = RemoveAt(timers, k)
                       /\ lastOp' = [op |-> "nextLevel"]
                       /\ calls' = <<>>
                       /\ resolved' = <<>>
                       /\ sweepStart' = NoSweep
                       /\ UNCHANGED <<player, coins, platforms, anim, entities,
                                      subscriptions, score, isGameRunning, currentLevel,
                                      totalCoins, isLevelCompleting, frameDt, gen,
                                      frames, inputs, airTime, rs, cloneVars>>
             [] timers[k].kind = "restartGame" ->
                  \* GameModel.restartGame()
                  /\ gen <= LoadLimit
                  /\ Reload(1, 100, "restartGame", FALSE)
                  /\ timers' = Append(RemoveAt(timers, k),
                                      Timer("resume", 100, isGameRunning))

\* a cooldown that never holds a placement back
OnCooldownNever(cooldown) == FALSE

\* this.placeCooldown > 0
OnCooldown(cooldown) == cooldown > 0

\* what a handlePlaceAction() call found: the lists, the cooldown and the
\* running time since the last placement
PlaceSnapshot ==
    [frozenClones |-> frozenClones, entities |-> entities,
     placeCooldown |-> placeCooldown, sincePlace |-> cloneLog.sincePlace]

\* GameModel.handlePlaceAction()
HandlePlaceAction ==
    /\ cloneLog.places < MaxPlaces
    /\ LET c == MkClone(cloneLog.places + 1,
                        RoundMove(player.x, player.subx, 0, 1),
                        RoundMove(player.y, player.suby, 0, 1))
           built == ConstructClone(
                        CloneModel(frozenClones, entities, cloneFields, cloneTimers, cloneLog),
                        c)
       IN IF OnCooldown(placeCooldown)
          THEN /\ lastOp' = [op |-> "place", ok |-> FALSE, clone |-> c,
                             before |-> PlaceSnapshot]
               /\ UNCHANGED <<entities, cloneVars>>
          ELSE /\ lastOp' = [op |-> "place", ok |-> TRUE, clone |-> c,
                             before |-> PlaceSnapshot]
               /\ placeCooldown' = PlaceCooldownTime
               /\ cloneFields' = [built.fields EXCEPT ![c].boundsEnabled = FALSE]
               /\ frozenClones' = Append(frozenClones, c)
               /\ entities' = Register(entities, c)
               /\ cloneTimers' = Append(built.timers, CloneTimer("grace", c, GraceDelay))
               /\ cloneLog' = [cloneLog EXCEPT !.places = @ + 1, !.sincePlace = 0]
    /\ calls' = <<>>
    /\ resolved' = <<>>
    /\ sweepStart' = NoSweep
    /\ UNCHANGED <<player, coins, platforms, anim, subscriptions, score, isGameRunning,
                   currentLevel, totalCoins, isLevelCompleting, timers, frameDt, gen,
                   frames, inputs, airTime, rs>>

\* the setTimeout callback of a clone whose delay has passed fires
FireCloneTimer ==
    LET k == DueTimer(cloneTimers)
    IN /\ k # 0
       /\ LET cm == CloneTimerCallback(
                        CloneModel(frozenClones, entities, cloneFields,
                                   RemoveAt(cloneTimers, k), cloneLog),
                        cloneTimers[k])
          IN /\ frozenClones' = cm.frozenClones
             /\ entities' = cm.entities
             /\ cloneFields' = cm.fields
             /\ cloneTimers' = cm.timers
             /\ cloneLog' = cm.log
       /\ lastOp' = [op |-> "cloneTimer", kind |-> cloneTimers[k].kind,
                     clone |-> cloneTimers[k].clone]
       /\ calls' = <<>>
       /\ resolved' = <<>>
       /\ sweepStart' = NoSweep
       /\ UNCHANGED <<player, coins, platforms, anim, subscriptions, score, isGameRunning,
                      currentLevel, totalCoins, isLevelCompleting, timers, frameDt, gen,
                      frames, inputs, airTime, rs, placeCooldown>>

Next ==
    \/ \E dt \in DeltaTimes : Update(dt)
    \/ \E d \in Directions : ApplyPlayerInput(d)
    \/ ResetLevel
    \/ FireTimer

Spec == Init /\ [][Next]_vars

(***************************************************************************)
(* SpecPlayer: the player among static boxes.  Each tick runs               *)
(* Player.update and then the collision response for the boxes the player  *)
(* meets in that tick; which boxes those are is the level's geometry and is *)
(* left open here (a floor under the feet, a wall at the right, a ceiling,  *)
(* or nothing, as when the player walks off a ledge).                       *)
(***************************************************************************)
\* a static box cutting one pixel into the player's box from below
FloorBox(p) ==
    LET pb == GetCollisionBox(PlayerEnt, p)
    IN [x |-> pb.x - 5, y |-> pb.y + pb.height - 1, width |-> TileSize, height |-> TileSize]

\* a static box cutting one pixel into the player's box from the right
WallBox(p) ==
    LET pb == GetCollisionBox(PlayerEnt, p)
    IN [x |-> pb.x + pb.width - 1, y |-> pb.y, width |-> TileSize, height |-> 2 * TileSize]

\* a static box cutting one pixel into the player's box from above
CeilingBox(p) ==
    LET pb == GetCollisionBox(PlayerEnt, p)
    IN [x |-> pb.x - 5, y |-> pb.y + 1 - TileSize, width |-> TileSize, height |-> TileSize]

Contacts == {"none", "floor", "wall", "ceiling"}

ContactBox(contact, p) ==
    CASE contact = "floor" -> FloorBox(p)
      [] contact = "wall" -> WallBox(p)
      [] OTHER -> CeilingBox(p)

gameVars == <<coins, platforms, anim, score, isGameRunning, currentLevel, totalCoins,
              isLevelCompleting, timers, gen, cloneVars>>

\* no clone was ever placed
NoClones ==
    /\ frozenClones = <<>>
    /\ cloneFields = <<>>
    /\ cloneTimers = <<>>
    /\ placeCooldown = 0
    /\ cloneLog = NewCloneLog

\* a GameModel that holds no level
NoLevel ==
    /\ coins = <<>>
    /\ platforms = <<>>
    /\ anim = <<>>
    /\ score = 0
    /\ isGameRunning = TRUE
    /\ currentLevel = 1
    /\ totalCoins = 0
    /\ isLevelCompleting = FALSE
    /\ timers = <<>>
    /\ gen = 1

GameIdle == NoLevel /\ NoClones

InitPlayer ==
    /\ player = ResetToPosition(NewPlayer, Level1.player.x, Level1.player.y)
    /\ GameIdle
    /\ entities = <<>>
    /\ subscriptions = <<>>
    /\ frameDt = 1
    /\ frames = 0
    /\ inputs = 0
    /\ lastOp = [op |-> "init"]
    /\ calls = <<>>
    /\ resolved = <<>>
    /\ sweepStart = NoSweep
    /\ airTime = -1
    /\ rs = NoRs

\* one tick: Player.update, then the player's callback for the box met
PlayerTick(dt, contact) ==
    /\ frames < MaxTicks
    /\ LET moved == PlayerUpdate(player, dt)
           sb == ContactBox(contact, moved)
           after == IF contact = "none" THEN moved ELSE HandleStaticCollision(moved, sb)
       IN /\ player' = after
          /\ resolved' = IF contact = "none"
                         THEN <<>>
                         ELSE <<[before |-> moved, box |-> sb, after |-> after]>>
          /\ airTime' = AirTimeAfter(player.onGround, after.onGround, dt)
    /\ lastOp' = [op |-> "update", dt |-> dt, ran |-> TRUE]
    /\ frames' = frames + 1
    /\ frameDt' = dt
    /\ UNCHANGED <<gameVars, entities, subscriptions, inputs, calls, sweepStart, rs>>

NextPlayer ==
    \/ \E dt \in DeltaTimes, contact \in Contacts : PlayerTick(dt, contact)
    \/ \E d \in Directions : ApplyPlayerInput(d)

SpecPlayer == InitPlayer /\ [][NextPlayer]_vars

(***************************************************************************)
(* SpecJump: the player among static boxes as in SpecPlayer, over a longer *)
(* run, with the jumps counted: rs.onJumpCalls is the number of onJump     *)
(* calls since the last Player.update that found the player grounded,      *)
(* rs.jumps the number of 'up' inputs that set velocity.y to jumpVelocity  *)
(* since collision resolution last set physics.onGround.                   *)
(***************************************************************************)
InitJump ==
    /\ player = ResetToPosition(NewPlayer, Level1.player.x, Level1.player.y)
    /\ GameIdle
    /\ entities = <<>>
    /\ subscriptions = <<>>
    /\ frameDt = 1
    /\ frames = 0
    /\ inputs = 0
    /\ lastOp = [op |-> "init"]
    /\ calls = <<>>
    /\ resolved = <<>>
    /\ sweepStart = NoSweep
    /\ airTime = -1
    /\ rs = [phase |-> "jump", onJumpCalls |-> 0, jumps |-> 0]

\* one tick: Player.update, then the player's callback for the box met
JumpTick(dt, contact) ==
    /\ rs.phase = "jump"
    /\ frames < MaxJumpTicks
    /\ LET moved == PlayerUpdate(player, dt)
           sb == ContactBox(contact, moved)
           after == IF contact = "none" THEN moved ELSE HandleStaticCollision(moved, sb)
       IN /\ player' = after
          /\ resolved' = IF contact = "none"
                         THEN <<>>
                         ELSE <<[before |-> moved, box |-> sb, after |-> after]>>
          /\ airTime' = AirTimeAfter(player.onGround, after.onGround, dt)
          /\ rs' = [rs EXCEPT !.onJumpCalls = IF player.onGround THEN 0 ELSE @,
                              !.jumps = IF after.onGround THEN 0 ELSE @]
    /\ lastOp' = [op |-> "update", dt |-> dt, ran |-> TRUE, grounded |-> player.onGround]
    /\ frames' = frames + 1
    /\ frameDt' = dt
    /\ UNCHANGED <<gameVars, entities, subscriptions, inputs, calls, sweepStart>>

\* player.applyInput(direction, deltaTime), once per direction and frame
JumpInput(direction) ==
    /\ rs.phase = "jump"
    /\ inputs < MaxJumpInputs
    /\ direction \notin player.activeDirections
    /\ player' = PlayerApplyInput(player, direction, frameDt)
    /\ rs' = [rs EXCEPT
                 !.onJumpCalls = IF OnJumpCalled(player, direction) THEN @ + 1 ELSE @,
                 !.jumps = IF direction = "up" /\ CanJump(player) THEN @ + 1 ELSE @]
    /\ lastOp' = [op |-> "input", direction |-> direction, ran |-> TRUE,
                  onJump |-> OnJumpCalled(player, direction), before |-> player]
    /\ inputs' = inputs + 1
    /\ airTime' = IF direction = "up" /\ CanJump(player) THEN -1 ELSE airTime
    /\ calls' = <<>>
    /\ resolved' = <<>>
    /\ sweepStart' = NoSweep
    /\ UNCHANGED <<gameVars, entities, subscriptions, frameDt, frames>>

NextJump ==
    \/ \E dt \in DeltaTimes, contact \in Contacts : JumpTick(dt, contact)
    \/ \E d \in Directions : JumpInput(d)

SpecJump == InitJump /\ [][NextJump]_vars

(***************************************************************************)
(* SpecVelocity: Player.applyBounce and Player.update applied to a player  *)
(* whose velocity is drawn, in pixels per second, from the sets below.     *)
(***************************************************************************)
VelocityXs == {-500, 0, 300, 600}

VelocityYs == {-700, 0, 800}

\* bounce vectors: short ones, and ones as long as the enemy bounce
BounceVectors == {<<100, 0>>, <<-150, 200>>, <<2000, 0>>, <<0, -2000>>,
                  <<-1200, 1600>>, <<1414, 1414>>}

InitVelocity ==
    /\ \E vx \in VelocityXs, vy \in VelocityYs :
           player = [ResetToPosition(NewPlayer, Level1.player.x, Level1.player.y)
                        EXCEPT !.vx = vx * VelScale, !.vy = vy * VelScale]
    /\ GameIdle
    /\ entities = <<>>
    /\ subscriptions = <<>>
    /\ frameDt = 1
    /\ frames = 0
    /\ inputs = 0
    /\ lastOp = [op |-> "init"]
    /\ calls = <<>>
    /\ resolved = <<>>
    /\ sweepStart = NoSweep
    /\ airTime = -1
    /\ rs = [phase |-> "velocity", ops |-> 0]

VelocityStep(op) ==
    /\ rs.ops < MaxBounces
    /\ rs' = [rs EXCEPT !.ops = @ + 1]
    /\ lastOp' = op
    /\ UNCHANGED <<gameVars, entities, subscriptions, frameDt, frames, inputs, calls,
                   resolved, sweepStart, airTime>>

\* player.applyBounce(vector)
Bounce(v) ==
    /\ VelocityStep([op |-> "bounce", x |-> v[1] * VelScale, y |-> v[2] * VelScale,
                     before |-> player])
    /\ player' = ApplyBounce(player, v[1] * VelScale, v[2] * VelScale)

\* player.update(deltaTime) in a frame without direction input
Coast(dt) ==
    /\ player.activeDirections = {}
    /\ VelocityStep([op |-> "coast", dt |-> dt, before |-> player])
    /\ player' = PlayerUpdate(player, dt)

NextVelocity ==
    \/ \E v \in BounceVectors : Bounce(v)
    \/ \E dt \in DeltaTimes : Coast(dt)

SpecVelocity == InitVelocity /\ [][NextVelocity]_vars

(***************************************************************************)
(* SpecLevels: the game started with currentLevel set to a number for      *)
(* which LevelDefinitions has no level (currentLevel is a plain field of   *)
(* the model), then run by frames, resets and timers without input.        *)
(***************************************************************************)
LevelNumbers == {-1, 0, MaxLevel + 1, MaxLevel + 4}

InitLevels ==
    /\ \E level \in LevelNumbers :
           InitLoadedAt(LoadLevel(level, 1, TRUE, NewPlayer, <<>>, <<>>, <<>>, <<>>), level)
    /\ rs = [phase |-> "levels"]

NextLevels ==
    \/ \E dt \in DeltaTimes : Update(dt)
    \/ ResetLevel
    \/ FireTimer

SpecLevels == InitLevels /\ [][NextLevels]_vars

(***************************************************************************)
(* SpecPause: the game run by frames, inputs, resets and timers, with the   *)
(* user pausing and resuming it at any moment, over more level loads and   *)
(* fewer frames than Spec.                                                 *)
(***************************************************************************)
InitPause ==
    /\ InitLoaded(LoadLevel(1, 1, TRUE, NewPlayer, <<>>, <<>>, <<>>, <<>>))
    /\ rs = [phase |-> "pause", toggles |-> 0]

\* GameModel.togglePause()
TogglePause ==
    /\ rs.toggles < MaxToggles
    /\ rs' = [rs EXCEPT !.toggles = @ + 1]
    /\ isGameRunning' = ~isGameRunning
    /\ lastOp' = [op |-> "togglePause", set |-> ~isGameRunning]
    /\ calls' = <<>>
    /\ resolved' = <<>>
    /\ sweepStart' = NoSweep
    /\ UNCHANGED <<player, coins, platforms, anim, entities, subscriptions, score,
                   currentLevel, totalCoins, isLevelCompleting, timers, frameDt, gen,
                   frames, inputs, airTime, cloneVars>>

NextPause ==
    \/ \E dt \in DeltaTimes : Update(dt)
    \/ \E d \in Directions : ApplyPlayerInput(d)
    \/ ResetLevel
    \/ FireTimer
    \/ TogglePause

SpecPause == InitPause /\ [][NextPause]_vars

(***************************************************************************)
(* SpecEnemy: the collision engine of a GameModel whose level holds one    *)
(* enemy, driven directly: checkCollisions(), Player.update(),             *)
(* Player.applyInput() and Player.resetToPosition() are called on a player *)
(* drawn around the enemy, at and off the enemy's own position.            *)
(* (GameModel.update() itself calls enemy.update(), which the Enemy class  *)
(* does not define, before it reaches checkCollisions().)                  *)
(***************************************************************************)
TheEnemy == MkEnemy(1, 100, 100)

\* the player's x: touching from the left, a little left, the same, to the
\* right of it, apart
EnemyXs == {36, 70, 97, 100, 110, 130}

EnemyYs == {36, 60, 100, 104, 130}

EnemyVxs == {-MaxSpeed * VelScale, 0, Acceleration}

EnemyVys == {JumpVelocity * VelScale, 0, MaxFallSpeed * VelScale}

InitEnemy ==
    /\ \E px \in EnemyXs, py \in EnemyYs, vx \in EnemyVxs, vy \in EnemyVys :
           player = [ResetToPosition(NewPlayer, px, py) EXCEPT !.vx = vx, !.vy = vy]
    /\ GameIdle
    /\ entities = Register(Register(<<>>, PlayerEnt), TheEnemy)
    /\ subscriptions = Subscribe(<<>>, PlayerEnt, "player")
    /\ frameDt = 1
    /\ frames = 0
    /\ inputs = 0
    /\ lastOp = [op |-> "init"]
    /\ calls = <<>>
    /\ resolved = <<>>
    /\ sweepStart = NoSweep
    /\ airTime = -1
    /\ rs = [phase |-> "enemy", ops |-> 0]

\* collisionEngine.checkCollisions()
EnemySweep ==
    /\ rs.phase = "enemy"
    /\ rs.ops < MaxSweeps
    /\ rs' = [rs EXCEPT !.ops = @ + 1]
    /\ LET st == CheckCollisions(
                     SweepState(player, coins, anim, entities, subscriptions, score), 1, 2)
       IN /\ player' = st.player
          /\ entities' = st.entities
          /\ score' = st.score
          /\ calls' = st.calls
          /\ resolved' = st.resolved
          /\ lastOp' = [op |-> "checkCollisions", before |-> player, score |-> score,
                        bounces |-> st.bounces]
    /\ sweepStart' = [player |-> player, entities |-> entities,
                      subscriptions |-> subscriptions]
    /\ UNCHANGED <<coins, platforms, anim, isGameRunning, currentLevel, totalCoins,
                   isLevelCompleting, timers, gen, cloneVars, subscriptions, frameDt,
                   frames, inputs, airTime>>

\* player.update(deltaTime) between two sweeps
EnemyTick(dt) ==
    /\ rs.phase = "enemy"
    /\ rs.ops < MaxSweeps
    /\ rs' = [rs EXCEPT !.ops = @ + 1]
    /\ player' = PlayerUpdate(player, dt)
    /\ lastOp' = [op |-> "playerUpdate", dt |-> dt, before |-> player]
    /\ UNCHANGED <<gameVars, entities, subscriptions, frameDt, frames, inputs, calls,
                   resolved, sweepStart, airTime>>

\* player.applyInput(direction, deltaTime)
EnemyInput(direction) ==
    /\ rs.phase = "enemy"
    /\ rs.ops < MaxSweeps
    /\ direction \notin player.activeDirections
    /\ rs' = [rs EXCEPT !.ops = @ + 1]
    /\ player' = PlayerApplyInput(player, direction, frameDt)
    /\ lastOp' = [op |-> "input", direction |-> direction, before |-> player]
    /\ UNCHANGED <<gameVars, entities, subscriptions, frameDt, frames, inputs, calls,
                   resolved, sweepStart, airTime>>

\* player.resetToPosition(x, y), as every level load does
EnemyRespawn ==
    /\ rs.phase = "enemy"
    /\ rs.ops < MaxSweeps
    /\ rs' = [rs EXCEPT !.ops = @ + 1]
    /\ player' = ResetToPosition(player, Level1.player.x, Level1.player.y)
    /\ lastOp' = [op |-> "resetToPosition", before |-> player]
    /\ UNCHANGED <<gameVars, entities, subscriptions, frameDt, frames, inputs, calls,
                   resolved, sweepStart, airTime>>

NextEnemy ==
    \/ EnemySweep
    \/ \E dt \in DeltaTimes : EnemyTick(dt)
    \/ \E d \in Directions : EnemyInput(d)
    \/ EnemyRespawn

SpecEnemy == InitEnemy /\ [][NextEnemy]_vars

(***************************************************************************)
(* SpecEntity: one Entity driven by a client that plays custom animations  *)
(* of drawn configurations, stops them and calls update().  The entity's   *)
(* fields are held in anim under TheEntity; rs counts the                  *)
(* playCustomAnimation calls made and the onComplete calls each of them    *)
(* received, and holds the animations replaced while they were playing.    *)
(***************************************************************************)
TheEntity == [kind |-> "Entity", id |-> 1]

FrameCounts == {1, 3}

FrameSpeeds == {1, 3}

StartFrames == {0, 2}

OnCompletes == {"none", "log", "replay"}

EntityConfigs ==
    [frameCount : FrameCounts, frameSpeed : FrameSpeeds, startFrame : StartFrames,
     loop : BOOLEAN, onComplete : OnCompletes]

\* every call made by the client can be followed by one made from a callback
AnimationIds == 1..(2 * MaxAnimations)

InitEntity ==
    /\ \E enabled \in BOOLEAN, loopCallback \in {"none", "log"} :
           anim = [x \in {TheEntity} |-> NewEntity(enabled, loopCallback)]
    /\ player = NewPlayer
    /\ coins = <<>>
    /\ platforms = <<>>
    /\ score = 0
    /\ isGameRunning = TRUE
    /\ currentLevel = 1
    /\ totalCoins = 0
    /\ isLevelCompleting = FALSE
    /\ timers = <<>>
    /\ gen = 1
    /\ NoClones
    /\ entities = <<>>
    /\ subscriptions = <<>>
    /\ frameDt = 1
    /\ frames = 0
    /\ inputs = 0
    /\ lastOp = [op |-> "init"]
    /\ calls = <<>>
    /\ resolved = <<>>
    /\ sweepStart = NoSweep
    /\ airTime = -1
    /\ rs = [phase |-> "entity", plays |-> 0, client |-> 0, replaced |-> {},
             completions |-> [i \in AnimationIds |-> 0]]

EntityStep ==
    UNCHANGED <<player, coins, platforms, entities, subscriptions, score, isGameRunning,
                currentLevel, totalCoins, isLevelCompleting, timers, frameDt, gen, frames,
                inputs, calls, resolved, sweepStart, airTime, cloneVars>>

\* the client calls entity.playCustomAnimation(config)
EntityPlay(config) ==
    /\ rs.phase = "entity"
    /\ rs.client < MaxAnimations
    /\ anim' = [anim EXCEPT ![TheEntity] =
                    EntityPlayCustomAnimation(@, config, rs.plays + 1)]
    /\ rs' = [rs EXCEPT !.plays = @ + 1, !.client = @ + 1,
                        !.replaced = IF CustomAnimationRuns(anim[TheEntity])
                                     THEN @ \cup {anim[TheEntity].customAnimation.id}
                                     ELSE @]
    /\ lastOp' = [op |-> "playCustomAnimation", before |-> anim[TheEntity],
                  events |-> <<[ev |-> "play", id |-> rs.plays + 1]>>]
    /\ EntityStep

\* the number of onComplete calls for animation i among the events
CompletionsIn(events, i) ==
    Cardinality({k \in DOMAIN events : events[k] = [ev |-> "complete", id |-> i]})

\* the client calls entity.update(deltaTime)
EntityTick(dt) ==
    /\ rs.phase = "entity"
    /\ LET r == EntityUpdate(anim[TheEntity], dt, rs.plays + 1)
           played == \E k \in DOMAIN r.events : r.events[k].ev = "play"
       IN /\ anim' = [anim EXCEPT ![TheEntity] = r.entity]
          /\ rs' = [rs EXCEPT !.plays = IF played THEN @ + 1 ELSE @,
                              !.completions =
                                  [i \in AnimationIds |-> @[i] + CompletionsIn(r.events, i)]]
          /\ lastOp' = [op |-> "entityUpdate", dt |-> dt, before |-> anim[TheEntity],
                        events |-> r.events]
    /\ EntityStep

\* the client calls entity.stopCustomAnimation()
EntityStop ==
    /\ rs.phase = "entity"
    /\ anim[TheEntity].isPlayingCustomAnimation
    /\ anim' = [anim EXCEPT ![TheEntity] = EntityStopCustomAnimation(@)]
    /\ lastOp' = [op |-> "stopCustomAnimation", before |-> anim[TheEntity],
                  events |-> <<>>]
    /\ UNCHANGED rs
    /\ EntityStep

NextEntity ==
    \/ \E config \in EntityConfigs : EntityPlay(config)
    \/ \E dt \in DeltaTimes : EntityTick(dt)
    \/ EntityStop

SpecEntity == InitEntity /\ [][NextEntity]_vars

(***************************************************************************)
(* SpecPlace: the game over a longer stretch of frames in which the player *)
(* gives no direction but places clones and resets the level.  Frames     *)
(* come at the 1/30 s cap of main.js, and the span ends before the 1.5 s   *)
(* timer of a completed level can fire.                                    *)
(***************************************************************************)
\* Math.min(deltaTime, 1/30) of a slow frame
CappedDeltaTimes == {2}

InitPlace ==
    /\ InitLoaded(LoadLevel(1, 1, TRUE, NewPlayer, <<>>, <<>>, <<>>, <<>>))
    /\ rs = [phase |-> "place"]

NextPlace ==
    \/ \E dt \in CappedDeltaTimes : Update(dt)
    \/ HandlePlaceAction
    \/ ResetLevel
    \/ FireCloneTimer

SpecPlace == InitPlace /\ [][NextPlace]_vars

(***************************************************************************)
(* SpecLinger: the game with a clone placed in its first frame, followed   *)
(* for as long as the clone takes to reach its self-destruct sequence,     *)
(* with a level reset at any moment on the way.                            *)
(***************************************************************************)
InitLinger ==
    /\ InitLoaded(LoadLevel(1, 1, TRUE, NewPlayer, <<>>, <<>>, <<>>, <<>>))
    /\ rs = [phase |-> "linger"]

\* handlePlaceAction() before the first frame
PlaceFirst == frames = 0 /\ HandlePlaceAction

NextLinger ==
    \/ \E dt \in CappedDeltaTimes : Update(dt)
    \/ PlaceFirst
    \/ ResetLevel
    \/ FireCloneTimer

SpecLinger == InitLinger /\ [][NextLinger]_vars

(***************************************************************************)
(* SpecComplete: the game followed through level completions: frames at    *)
(* the 1/30 s cap of main.js without input, level resets at any moment,    *)
(* and the completion and resume timers firing.                            *)
(***************************************************************************)
InitComplete ==
    /\ InitLoaded(LoadLevel(1, 1, TRUE, NewPlayer, <<>>, <<>>, <<>>, <<>>))
    /\ rs = [phase |-> "complete"]

NextComplete ==
    \/ \E dt \in CappedDeltaTimes : Update(dt)
    \/ ResetLevel
    \/ FireTimer

SpecComplete == InitComplete /\ [][NextComplete]_vars

(***************************************************************************)
(* SpecRemove: the game with a clone placed in its first frame and         *)
(* followed through the clone's whole life, the player asking for the      *)
(* removal of the oldest clone at any moment.  SpecRemoveLive adds that    *)
(* frames keep coming and that a timer whose delay has passed fires.       *)
(***************************************************************************)
InitRemove ==
    /\ InitLoaded(LoadLevel(1, 1, TRUE, NewPlayer, <<>>, <<>>, <<>>, <<>>))
    /\ rs = [phase |-> "remove", requests |-> 0]

\* removeOldestFrozenClone(), the Q key
RequestRemoval ==
    /\ rs.requests < MaxRequests
    /\ rs' = [rs EXCEPT !.requests = @ + 1]
    /\ LET cm == RemoveOldestFrozenClone(
                     CloneModel(frozenClones, entities, cloneFields, cloneTimers, cloneLog))
       IN /\ frozenClones' = cm.frozenClones
          /\ entities' = cm.entities
          /\ cloneFields' = cm.fields
          /\ cloneTimers' = cm.timers
          /\ cloneLog' = cm.log
    /\ lastOp' = [op |-> "removeOldestFrozenClone", before |-> frozenClones,
                  fields |-> cloneFields]
    /\ calls' = <<>>
    /\ resolved' = <<>>
    /\ sweepStart' = NoSweep
    /\ UNCHANGED <<player, coins, platforms, anim, subscriptions, score, isGameRunning,
                   currentLevel, totalCoins, isLevelCompleting, timers, frameDt, gen,
                   frames, inputs, airTime, placeCooldown>>

NextRemove ==
    \/ \E dt \in CappedDeltaTimes : Update(dt)
    \/ PlaceFirst
    \/ FireCloneTimer
    \/ RequestRemoval

SpecRemove == InitRemove /\ [][NextRemove]_vars

\* the next frame can come: update() is called by every frame, after the
\* timers that are due
FrameDue == frames < FrameLimit /\ DueTimer(cloneTimers) = 0

\* weak fairness of the frames (every update() of a running game counts in
\* frames) and of the clone timers
SpecRemoveLive ==
    /\ SpecRemove
    /\ ([]<>(~FrameDue) \/ []<><<isGameRunning>>_frames)
    /\ WF_vars(FireCloneTimer)

(***************************************************************************)
(* SpecDestroy: the first frames of the game, in which the player places a *)
(* clone and the clone's onDestroy callback gets invoked, be it once or    *)
(* again.                                                                  *)
(***************************************************************************)
InitDestroy ==
    /\ InitLoaded(LoadLevel(1, 1, TRUE, NewPlayer, <<>>, <<>>, <<>>, <<>>))
    /\ rs = [phase |-> "destroy", ops |-> 0]

\* the callback handed to the clone: (clone) => this.removeFrozenClone(clone)
DestroyStep(c) ==
    /\ rs' = [rs EXCEPT !.ops = @ + 1]
    /\ LET cm == OnDestroy(CloneModel(frozenClones, entities, cloneFields, cloneTimers,
                                      cloneLog), c)
       IN /\ frozenClones' = cm.frozenClones
          /\ entities' = cm.entities
          /\ cloneFields' = cm.fields
          /\ cloneTimers' = cm.timers
          /\ cloneLog' = cm.log
    /\ lastOp' = [op |-> "destroy", clone |-> c,
                  before |-> [frozenClones |-> frozenClones, entities |-> entities,
                              coins |-> coins, platforms |-> platforms, score |-> score]]
    /\ calls' = <<>>
    /\ resolved' = <<>>
    /\ sweepStart' = NoSweep
    /\ UNCHANGED <<player, coins, platforms, anim, subscriptions, score, isGameRunning,
                   currentLevel, totalCoins, isLevelCompleting, timers, frameDt, gen,
                   frames, inputs, airTime, placeCooldown>>

\* clone.onDestroy(clone), for the n-th clone placed
DestroyClone(n) ==
    /\ rs.ops < MaxDestroys
    /\ \E c \in DOMAIN cloneFields : c.id = n /\ DestroyStep(c)

NextDestroy ==
    \/ \E dt \in DeltaTimes : Update(dt)
    \/ HandlePlaceAction
    \/ \E n \in 1..MaxPlaces : DestroyClone(n)

SpecDestroy == InitDestroy /\ [][NextDestroy]_vars

(***************************************************************************)
(* SpecClone: one FrozenClone in the hands of an owner that constructs it, *)
(* calls update(deltaTime) every frame, lets its timers fire and may call  *)
(* startSelfDestruct() itself.  SpecCloneLive adds that frames keep coming *)
(* and that a timer whose delay has passed fires.                          *)
(***************************************************************************)
OwnedClone == MkClone(1, 0, 0)

InitClone ==
    /\ player = NewPlayer
    /\ NoLevel
    /\ entities = <<>>
    /\ subscriptions = <<>>
    /\ frameDt = 1
    /\ frames = 0
    /\ inputs = 0
    /\ lastOp = [op |-> "init"]
    /\ calls = <<>>
    /\ resolved = <<>>
    /\ sweepStart = NoSweep
    /\ airTime = -1
    /\ rs = [phase |-> "clone", ops |-> 0]
    /\ LET cm == ConstructClone(CloneModel(<<>>, <<>>, <<>>, <<>>, NewCloneLog), OwnedClone)
       IN /\ frozenClones = cm.frozenClones
          /\ cloneFields = cm.fields
          /\ cloneTimers = cm.timers
          /\ cloneLog = cm.log
    /\ placeCooldown = 0

\* what a call on the clone leaves of the game apart from the clone
CloneStep(cm, op) ==
    /\ frozenClones' = cm.frozenClones
    /\ entities' = cm.entities
    /\ cloneFields' = cm.fields
    /\ cloneTimers' = cm.timers
    /\ cloneLog' = cm.log
    /\ lastOp' = op
    /\ UNCHANGED <<player, coins, platforms, anim, subscriptions, score, isGameRunning,
                   currentLevel, totalCoins, isLevelCompleting, timers, frameDt, gen,
                   frames, inputs, calls, resolved, sweepStart, airTime, placeCooldown>>

\* clone.update(deltaTime) in the frame that ends a frame time of deltaTime
CloneTick(dt) ==
    /\ DueTimer(cloneTimers) = 0
    /\ CloneStep(CloneUpdate(CloneModel(frozenClones, entities, cloneFields,
                                        TimersAfter(cloneTimers, dt), cloneLog),
                             OwnedClone, dt),
                 [op |-> "cloneUpdate", dt |-> dt])
    /\ UNCHANGED rs

\* clone.startSelfDestruct() called by the owner
CallStartSelfDestruct ==
    /\ rs.ops < MaxStarts
    /\ rs' = [rs EXCEPT !.ops = @ + 1]
    /\ CloneStep(StartSelfDestruct(CloneModel(frozenClones, entities, cloneFields,
                                              cloneTimers, cloneLog),
                                   OwnedClone),
                 [op |-> "startSelfDestruct",
                  marked |-> cloneFields[OwnedClone].isMarkedForDestruction])

NextClone ==
    \/ \E dt \in DeltaTimes : CloneTick(dt)
    \/ FireCloneTimer
    \/ CallStartSelfDestruct

SpecClone == InitClone /\ [][NextClone]_vars

SpecCloneLive ==
    /\ SpecClone
    /\ WF_vars(\E dt \in DeltaTimes : CloneTick(dt))
    /\ WF_vars(FireCloneTimer)

(***************************************************************************)
(* SpecEngine: a CollisionEngine driven directly by a client that owns     *)
(* three square entities, an object without a Bounds, and null.            *)
(*      ProbeC touches ProbeA along an edge, ProbeB cuts into ProbeA,      *)
(*      ProbeB and ProbeC are apart.                                       *)
(***************************************************************************)
ProbeA == MkProbe(1, 0, 0, 10, TRUE)

ProbeB == MkProbe(2, 5, 5, 10, TRUE)

ProbeC == MkProbe(3, -10, 0, 10, TRUE)

ProbeNoBounds == MkProbe(4, 0, 0, 10, FALSE)

Probes == {ProbeA, ProbeB, ProbeC}

Clients == Probes \cup {ProbeNoBounds, NullEnt}

\* "record" only notes the call; "unregister" also unregisters the
\* counterpart, as the player's callback does with a coin
Callbacks == {"record", "unregister"}

InitEngine ==
    /\ player = NewPlayer
    /\ GameIdle
    /\ entities = <<>>
    /\ subscriptions = <<>>
    /\ frameDt = 1
    /\ frames = 0
    /\ inputs = 0
    /\ lastOp = [op |-> "init"]
    /\ calls = <<>>
    /\ resolved = <<>>
    /\ sweepStart = NoSweep
    /\ airTime = -1
    /\ rs = [phase |-> "engine", ops |-> 0]

\* what every client call leaves behind besides its effect on the engine
EngineStep(op) ==
    /\ rs.ops < MaxOps
    /\ rs' = [rs EXCEPT !.ops = @ + 1]
    /\ lastOp' = op
    /\ sweepStart' = [player |-> player, entities |-> entities, subscriptions |-> subscriptions]
    /\ UNCHANGED <<player, gameVars, frameDt, frames, inputs, resolved, airTime>>

EngineRegister(e) ==
    /\ EngineStep([op |-> "register", entity |-> e])
    /\ entities' = Register(entities, e)
    /\ calls' = <<>>
    /\ UNCHANGED subscriptions

EngineUnregister(e) ==
    /\ EngineStep([op |-> "unregister", entity |-> e])
    /\ entities' = Unregister(entities, e)
    /\ calls' = <<>>
    /\ UNCHANGED subscriptions

EngineSubscribe(e, cb) ==
    /\ EngineStep([op |-> "subscribe", entity |-> e])
    /\ subscriptions' = Subscribe(subscriptions, e, cb)
    /\ calls' = <<>>
    /\ UNCHANGED entities

EngineUnsubscribe(e) ==
    /\ EngineStep([op |-> "unsubscribe", entity |-> e])
    /\ subscriptions' = Unsubscribe(subscriptions, e)
    /\ calls' = <<>>
    /\ UNCHANGED entities

EngineCheckCollisions ==
    /\ EngineStep([op |-> "checkCollisions"])
    /\ LET st == CheckCollisions(
                     SweepState(player, <<>>, <<>>, entities, subscriptions, 0), 1, 2)
       IN /\ entities' = st.entities
          /\ subscriptions' = st.subscriptions
          /\ calls' = st.calls

NextEngine ==
    \/ \E e \in Clients : EngineRegister(e)
    \/ \E e \in Probes : EngineUnregister(e)
    \/ \E e \in Probes, cb \in Callbacks : EngineSubscribe(e, cb)
    \/ \E e \in Probes : EngineUnsubscribe(e)
    \/ EngineCheckCollisions

SpecEngine == InitEngine /\ [][NextEngine]_vars

(***************************************************************************)
(* SpecResolve: handleStaticCollision applied once to a player drawn       *)
(* around one static box: cutting into it from each side by a little or    *)
(* by a lot, inside it, and apart from it.  The box is a tile, the floor   *)
(* of level 1 or the collision box of a clone frozen at (100, 100).        *)
(***************************************************************************)
StaticTile == Rect(2, 2, 1, 1)

StaticBoxes ==
    {StaticTile, Level1.platforms[1], GetCollisionBox(MkClone(1, 100, 100), NewPlayer)}

\* player positions whose box begins at x = 62, 80, 105, 140, 148, 160
ResolveXs == {50, 68, 93, 128, 136, 148}

\* player positions whose box begins at y = 50, 60, 99, 120, 148, 160
ResolveYs == {38, 48, 87, 108, 136, 148}

ResolveVxs == {-MaxSpeed * VelScale, Acceleration}

ResolveVys == {JumpVelocity * VelScale, MaxFallSpeed * VelScale}

InitResolve ==
    /\ \E px \in ResolveXs, py \in ResolveYs, vx \in ResolveVxs, vy \in ResolveVys,
          grounded \in BOOLEAN :
           player = [NewPlayer EXCEPT !.x = px, !.y = py, !.vx = vx, !.vy = vy,
                                      !.onGround = grounded]
    /\ GameIdle
    /\ entities = <<>>
    /\ subscriptions = <<>>
    /\ frameDt = 1
    /\ frames = 0
    /\ inputs = 0
    /\ lastOp = [op |-> "init"]
    /\ calls = <<>>
    /\ resolved = <<>>
    /\ sweepStart = NoSweep
    /\ airTime = -1
    /\ \E box \in StaticBoxes : rs = [phase |-> "drawn", box |-> box]

Resolve ==
    /\ rs.phase = "drawn"
    /\ LET after == HandleStaticCollision(player, rs.box)
       IN /\ player' = after
          /\ resolved' = <<[before |-> player, box |-> rs.box, after |-> after]>>
    /\ rs' = [rs EXCEPT !.phase = "resolved"]
    /\ lastOp' = [op |-> "handleStaticCollision"]
    /\ UNCHANGED <<gameVars, entities, subscriptions, frameDt, frames, inputs, calls,
                   sweepStart, airTime>>

NextResolve == Resolve

SpecResolve == InitResolve /\ [][NextResolve]_vars

(***************************************************************************)
(* Properties                                                              *)
(***************************************************************************)
\* a recorded handleStaticCollision call took the vertical branch with the
\* player's box top above the static box's top
ResolvesFromAbove(r) ==
    LET pb == GetCollisionBox(PlayerEnt, r.before)
    IN /\ ~(OverlapX(pb, r.box) < OverlapY(pb, r.box))
       /\ pb.y < r.box.y

NoneFromAbove == \A k \in DOMAIN resolved : ~ResolvesFromAbove(resolved[k])

\* C1 (grounded invariant): after every tick in which no collision callback
\* resolved the player vertically from above, physics.onGround is false,
\* whatever it was when the tick began.
C1_GroundedInvariant ==
    (lastOp.op = "update" /\ lastOp.ran /\ NoneFromAbove) => ~player.onGround

\* C1 happens: a tick that began grounded met only a wall or a ceiling and
\* ended with the flag down
C1_Witness ==
    /\ lastOp.op = "update"
    /\ airTime = 0
    /\ resolved # <<>>
    /\ NoneFromAbove
    /\ ~player.onGround

\* C2 (coyote time): an 'up' input applied strictly within coyoteTime after a
\* tick took the player off the ground, and before it lands or jumps again,
\* sets velocity.y to jumpVelocity; applied after that window while still
\* airborne it leaves velocity.y unchanged.
C2_CoyoteTime ==
    [][(/\ lastOp'.op = "input"
        /\ lastOp'.direction = "up"
        /\ lastOp'.ran
        /\ airTime >= 0)
       => IF airTime < CoyoteTime
          THEN player'.vy = JumpVelocity * VelScale
          ELSE player'.vy = player.vy]_vars

\* the player's box before and after the one call SpecResolve makes
BoxBefore == GetCollisionBox(PlayerEnt, resolved[1].before)

BoxAfter == GetCollisionBox(PlayerEnt, resolved[1].after)

\* C3 (minimum-translation resolution): when handleStaticCollision is called
\* with the player's box overlapping the static box and overlapX < overlapY,
\* the player's box ends against the static box's edge on the side the box
\* began (left edge if it began left of the static box, else right edge),
\* velocity.x is 0, and nothing else changes: y, velocity.y and onGround
\* are as before.
C3_MinimumTranslation ==
    (/\ rs.phase = "resolved"
     /\ IsBoxIntersecting(BoxBefore, rs.box)
     /\ OverlapX(BoxBefore, rs.box) < OverlapY(BoxBefore, rs.box))
    => LET before == resolved[1].before
           after == resolved[1].after
       IN /\ IF BoxBefore.x < rs.box.x
             THEN BoxAfter.x + BoxAfter.width = rs.box.x
             ELSE BoxAfter.x = rs.box.x + rs.box.width
          /\ after.vx = 0
          /\ after.y = before.y
          /\ after.vy = before.vy
          /\ after.onGround = before.onGround
          /\ after = [before EXCEPT !.x = after.x, !.vx = 0]

\* C3 happens: a moving, airborne player cut into the tile's side and was moved
C3_Witness ==
    /\ rs.phase = "resolved"
    /\ IsBoxIntersecting(BoxBefore, rs.box)
    /\ OverlapX(BoxBefore, rs.box) < OverlapY(BoxBefore, rs.box)
    /\ resolved[1].before.vx # 0
    /\ resolved[1].before.vy # 0
    /\ resolved[1].after.x # resolved[1].before.x

\* C4 (vertical resolution): when handleStaticCollision resolves an overlap on
\* the y axis, velocity.y is 0 and x and velocity.x are as before; if the
\* player's box top was above the static box's top the box ends standing on
\* the static box and onGround is true; otherwise the box ends against the
\* static box's underside and onGround is as it was.
C4_VerticalResolution ==
    (/\ rs.phase = "resolved"
     /\ IsBoxIntersecting(BoxBefore, rs.box)
     /\ ~(OverlapX(BoxBefore, rs.box) < OverlapY(BoxBefore, rs.box)))
    => LET before == resolved[1].before
           after == resolved[1].after
       IN /\ after.vy = 0
          /\ after.x = before.x
          /\ after.vx = before.vx
          /\ IF BoxBefore.y < rs.box.y
             THEN /\ BoxAfter.y + BoxAfter.height = rs.box.y
                  /\ after.onGround
             ELSE /\ BoxAfter.y = rs.box.y + rs.box.height
                  /\ after.onGround = before.onGround

\* C4 happens: a rising player that was not grounded hit the tile from below
C4_Witness ==
    /\ rs.phase = "resolved"
    /\ IsBoxIntersecting(BoxBefore, rs.box)
    /\ ~(OverlapX(BoxBefore, rs.box) < OverlapY(BoxBefore, rs.box))
    /\ ~(BoxBefore.y < rs.box.y)
    /\ resolved[1].before.vy < 0
    /\ ~resolved[1].before.onGround
    /\ ~resolved[1].after.onGround

\* the callback subscribed for a was invoked with b in the last sweep
Invoked(a, b) == \E k \in DOMAIN calls : calls[k].entity = a /\ calls[k].with = b

StillRegistered(e) == \E k \in DOMAIN entities : entities[k] = e

\* C5 (collision engine symmetry): after one checkCollisions() call, for every
\* pair of distinct entities A, B that were registered when the call began, are still
\* registered and overlap, every subscription on A was invoked with B and
\* every subscription on B with A.
C5_Symmetry ==
    lastOp.op = "checkCollisions" =>
        \A i, j \in DOMAIN sweepStart.entities :
            LET a == sweepStart.entities[i]
                b == sweepStart.entities[j]
            IN (/\ i < j /\ a # b
                /\ StillRegistered(a) /\ StillRegistered(b)
                /\ IsColliding(a, b, player))
               => \A k \in DOMAIN sweepStart.subscriptions :
                      LET sub == sweepStart.subscriptions[k]
                      IN /\ sub.entity = a => Invoked(a, b)
                         /\ sub.entity = b => Invoked(b, a)

\* C6 (no self callback): whatever registrations, subscriptions, level loads
\* and resets came before, a callback is never invoked with the entity it was
\* subscribed for.
C6_NoSelfCallback == \A k \in DOMAIN calls : calls[k].with # calls[k].entity

\* the collision boxes of a and b share a region of positive area
BoxesCut(a, b, p) == IsBoxIntersecting(GetCollisionBox(a, p), GetCollisionBox(b, p))

\* C7 (every overlapping pair fires every tick): after each tick, every pair of
\* distinct entities that were registered when the sweep began, are still registered and
\* whose boxes overlap from the start of the sweep to its end has had its
\* subscribers invoked, also when a callback unregistered another entity (a
\* collected coin) during the sweep.
C7_EveryPairFires ==
    (lastOp.op = "update" /\ lastOp.ran) =>
        \A i, j \in DOMAIN sweepStart.entities :
            LET a == sweepStart.entities[i]
                b == sweepStart.entities[j]
            IN (/\ i < j /\ a # b
                /\ StillRegistered(a) /\ StillRegistered(b)
                /\ IsColliding(a, b, sweepStart.player) /\ BoxesCut(a, b, sweepStart.player)
                /\ IsColliding(a, b, player) /\ BoxesCut(a, b, player))
               => \A k \in DOMAIN subscriptions :
                      /\ subscriptions[k].entity = a => Invoked(a, b)
                      /\ subscriptions[k].entity = b => Invoked(b, a)

\* the squares x..x+size, y..y+size of a and b share at least a point
SquaresMeet(a, b) ==
    /\ a.x <= b.x + b.size /\ b.x <= a.x + a.size
    /\ a.y <= b.y + b.size /\ b.y <= a.y + a.size

\* the squares of a and b share a region of positive area
SquaresCut(a, b) ==
    /\ a.x < b.x + b.size /\ b.x < a.x + a.size
    /\ a.y < b.y + b.size /\ b.y < a.y + a.size

C9_RegisterRejects ==
    /\ (lastOp.op = "register" /\ ~HasBounds(lastOp.entity))
       => (entities = sweepStart.entities /\ subscriptions = sweepStart.subscriptions)
    /\ \A k \in DOMAIN entities : HasBounds(entities[k])
    /\ \A k \in DOMAIN calls : HasBounds(calls[k].entity) /\ HasBounds(calls[k].with)

\* C9 happens: null was handed to an engine that holds entities and
\* subscriptions
C9_Witness ==
    /\ lastOp.op = "register"
    /\ lastOp.entity = NullEnt
    /\ Len(entities) >= 2
    /\ subscriptions # <<>>

\* after is before without the entries whose key is e: the others keep their
\* order, each moved down by the number of removed entries ahead of it
RemovedAll(before, keys, after, e) ==
    /\ Len(after) = Cardinality({k \in DOMAIN before : keys[k] # e})
    /\ \A k \in DOMAIN before :
           keys[k] # e =>
               after[k - Cardinality({m \in 1..k : keys[m] = e})] = before[k]

\* C10 (removal by identity): unregister(e) and unsubscribe(e) remove every
\* occurrence of e, keep the other entries in order, touch nothing else, and
\* change nothing when e is absent or when applied a second time.
C10_RemoveAll ==
    /\ lastOp.op = "unregister" =>
           /\ RemovedAll(sweepStart.entities, sweepStart.entities, entities, lastOp.entity)
           /\ subscriptions = sweepStart.subscriptions
           /\ (~\E k \in DOMAIN sweepStart.entities : sweepStart.entities[k] = lastOp.entity)
              => entities = sweepStart.entities
           /\ Unregister(entities, lastOp.entity) = entities
    /\ lastOp.op = "unsubscribe" =>
           /\ RemovedAll(sweepStart.subscriptions,
                         [k \in DOMAIN sweepStart.subscriptions |->
                             sweepStart.subscriptions[k].entity],
                         subscriptions, lastOp.entity)
           /\ entities = sweepStart.entities
           /\ (~\E k \in DOMAIN sweepStart.subscriptions :
                   sweepStart.subscriptions[k].entity = lastOp.entity)
              => subscriptions = sweepStart.subscriptions
           /\ Unsubscribe(subscriptions, lastOp.entity) = subscriptions

\* C10 happens: an entity registered twice, with another entity between the
\* two registrations, was unregistered
C10_Witness ==
    /\ lastOp.op = "unregister"
    /\ \E i, j, k \in DOMAIN sweepStart.entities :
           /\ i < j /\ j < k
           /\ sweepStart.entities[i] = lastOp.entity
           /\ sweepStart.entities[j] # lastOp.entity
           /\ sweepStart.entities[k] = lastOp.entity
    /\ entities # <<>>

\* the velocity a bounce aims at: the sum of the velocity before and the vector
BounceSumX == lastOp.before.vx + lastOp.x

BounceSumY == lastOp.before.vy + lastOp.y

BounceExceeds ==
    /\ lastOp.op = "bounce"
    /\ Isqrt(BounceSumX * BounceSumX + BounceSumY * BounceSumY) > MaxSpeed * VelScale

\* the player's speed lies within two velocity units (a sixth of a pixel per
\* second) of maxSpeed
SpeedIsMaxSpeed ==
    /\ player.vx * player.vx + player.vy * player.vy
           <= (MaxSpeed * VelScale + 2) * (MaxSpeed * VelScale + 2)
    /\ player.vx * player.vx + player.vy * player.vy
           >= (MaxSpeed * VelScale - 2) * (MaxSpeed * VelScale - 2)

\* the player's velocity points the way the sum does: each component is off
\* the sum's direction by less than one velocity unit
SameDirection ==
    /\ player.vx * BounceSumX >= 0
    /\ player.vy * BounceSumY >= 0
    /\ Abs(player.vx * BounceSumY - player.vy * BounceSumX)
           <= Abs(BounceSumX) + Abs(BounceSumY)

\* C13: starting from velocity.x = 600, one Player.update tick without
\* direction input leaves |velocity.x| <= maxSpeed
C13_ClampInUpdate ==
    (lastOp.op = "coast" /\ lastOp.before.vx = 600 * VelScale)
        => Abs(player.vx) <= MaxSpeed * VelScale

\* C14: after applyBounce(vector) the velocity is the sum of the old velocity
\* and the vector when that sum's speed does not exceed maxSpeed, and else a
\* velocity of magnitude maxSpeed in the sum's direction (to the resolution
\* of the velocity units, where the code has that of its floating point)
C14_BounceClamp ==
    lastOp.op = "bounce" =>
        IF BounceExceeds
        THEN SpeedIsMaxSpeed /\ SameDirection
        ELSE player.vx = BounceSumX /\ player.vy = BounceSumY

\* a bounce was clamped on the way to a diagonal velocity
C14_Witness ==
    /\ BounceExceeds
    /\ player.vx # 0
    /\ player.vy # 0


\* C16: after init and any sequence of resetLevel(), nextLevel() and
\* restartGame() the player occurs exactly once in the engine's entities list
C16_PlayerRegisteredOnce ==
    Cardinality({k \in DOMAIN entities : entities[k] = PlayerEnt}) = 1

\* a resume timer of resetLevel(), nextLevel() or restartGame() is pending
ResumePending == \E k \in DOMAIN timers : timers[k].kind = "resume"

\* C19: between the start of resetLevel(), nextLevel() or restartGame() and
\* the firing of its resume timer isGameRunning is false, and an update()
\* called in that window returns without running the simulation
C19_PausedUntilResume ==
    ResumePending =>
        /\ ~isGameRunning
        /\ lastOp.op = "update" => ~lastOp.ran

\* how often clone c occurs in a log
Occurrences(log, c) == Cardinality({k \in DOMAIN log : log[k] = c})

\* the delays scheduled before the blinks of clone c, in milliseconds
DelaysOf(c) == SelectSeq(cloneLog.delays, LAMBDA d : d.clone = c)

\* the self-destruct sequence of every clone, as far as it has come
C18_Sequence ==
    \A c \in DOMAIN cloneFields :
        /\ Occurrences(cloneLog.started, c) <= 1
        /\ cloneFields[c].destructionAnimationCount <= 5
        /\ \A i \in DOMAIN DelaysOf(c) :
               /\ DelaysOf(c)[i].ms >= 100
               /\ i > 1 => DelaysOf(c)[i].ms < DelaysOf(c)[i - 1].ms
        /\ Occurrences(cloneLog.destroyed, c) <= 1
        /\ Occurrences(cloneLog.destroyed, c) = 1 =>
               /\ cloneFields[c].destructionAnimationCount = 5
               /\ ~cloneFields[c].animationEnabled

C18_Started == cloneFields[OwnedClone].isMarkedForDestruction

C18_Destroyed == Occurrences(cloneLog.destroyed, OwnedClone) = 1

\* C18: once startSelfDestruct() has run on a clone that keeps being updated,
\* exactly 5 blink cycles are played, every delay before a next blink is
\* shorter than the one before and at least 100 ms, onDestroy is invoked
\* exactly once, after the last blink, and a further startSelfDestruct()
\* starts no second sequence
C18_SelfDestruct == []C18_Sequence /\ (C18_Started ~> C18_Destroyed)

\* the clone was destroyed after five blinks, and the owner had called
\* startSelfDestruct() on the marked clone in between
C18_Witness ==
    /\ C18_Destroyed
    /\ Len(DelaysOf(OwnedClone)) = 4
    /\ lastOp.op = "startSelfDestruct"
    /\ lastOp.marked

\* C17: from a successful handlePlaceAction() until the clone's grace timer
\* fires, no collision callback is made for the clone, so that it does not
\* touch the player's position, velocity or onGround
C17_GracePeriod ==
    \A k \in DOMAIN calls :
        calls[k].with.kind = "FrozenClone" => cloneFields[calls[k].with].boundsEnabled

\* C15: handlePlaceAction() returns false and leaves frozenClones, the
\* registry and placeCooldown as they were whenever placeCooldown > 0; at
\* placeCooldown 0 it returns true, adds exactly one clone at the player's
\* rounded position and sets placeCooldown to placeCooldownTime, so that at
\* least placeCooldownTime of running simulation time lies between two
\* successful placements
C15_PlaceCooldown ==
    lastOp.op = "place" =>
        IF lastOp.before.placeCooldown > 0
        THEN /\ ~lastOp.ok
             /\ frozenClones = lastOp.before.frozenClones
             /\ entities = lastOp.before.entities
             /\ placeCooldown = lastOp.before.placeCooldown
        ELSE /\ lastOp.ok
             /\ lastOp.clone \notin SeqToSet(lastOp.before.frozenClones)
             /\ frozenClones = Append(lastOp.before.frozenClones, lastOp.clone)
             /\ entities = Append(lastOp.before.entities, lastOp.clone)
             /\ lastOp.clone.x = player.x
             /\ lastOp.clone.y = player.y
             /\ placeCooldown = Ms(1000)
             /\ lastOp.before.sincePlace = -1 \/ lastOp.before.sincePlace >= Ms(1000)

\* a second clone was placed, a second of running time after the first
C15_Witness ==
    /\ lastOp.op = "place"
    /\ lastOp.ok
    /\ lastOp.before.sincePlace >= Ms(1000)
    /\ Len(frozenClones) = 2

\* the callbacks the sweep of the step made for coin c
CoinHits(c) == {k \in DOMAIN calls' : calls'[k].with = c}

\* what one running update() does with the coins
C11_CoinStep ==
    (lastOp'.op = "update" /\ lastOp'.ran) =>
        /\ score' = score + CoinScore * Cardinality({k \in DOMAIN calls' :
                                                       calls'[k].with.kind = "Coin"})
        /\ \A c \in SeqToSet(coins) :
               /\ Cardinality(CoinHits(c)) <= 1
               /\ c \notin SeqToSet(entities) => CoinHits(c) = {}
               /\ CoinHits(c) # {} =>
                      /\ c \notin SeqToSet(entities')
                      /\ c \in SeqToSet(coins')
               /\ c \notin SeqToSet(coins') =>
                      /\ c \notin SeqToSet(entities)
                      /\ anim[c].isPlayingCustomAnimation
                      /\ anim[c].currentFrame + 1 = 3

\* C11: a coin scores the per-coin amount once, on first contact, however
\* long the player keeps overlapping it; the contact unregisters it from the
\* engine but leaves it in the coins list, which it leaves only in the
\* update in which its collect animation has run through its three frames
C11_CoinCollection == [][C11_CoinStep]_vars

\* the coin of the first level was collected and has left the list, with the
\* player still where it met the coin
C11_Witness ==
    /\ lastOp.op = "update"
    /\ gen = 1
    /\ coins = <<>>
    /\ score = CoinScore
    /\ totalCoins = 1

Without(q, c) == SelectSeq(q, LAMBDA d : d # c)

\* C12: invoking a clone's destroy callback leaves the clone out of
\* frozenClones and out of the registry, removes no other entity and keeps
\* the score; invoked on a clone that is already gone it changes nothing
C12_IdempotentDestroy ==
    lastOp.op = "destroy" =>
        /\ lastOp.clone \notin SeqToSet(frozenClones)
        /\ lastOp.clone \notin SeqToSet(entities)
        /\ frozenClones = Without(lastOp.before.frozenClones, lastOp.clone)
        /\ entities = Without(lastOp.before.entities, lastOp.clone)
        /\ coins = lastOp.before.coins
        /\ platforms = lastOp.before.platforms
        /\ score = lastOp.before.score
        /\ lastOp.clone \notin SeqToSet(lastOp.before.frozenClones) =>
               /\ frozenClones = lastOp.before.frozenClones
               /\ entities = lastOp.before.entities

\* the callback was invoked a second time for a clone, in a game whose
\* registry holds the level's entities
C12_Witness ==
    /\ lastOp.op = "destroy"
    /\ Occurrences(cloneLog.destroyed, lastOp.clone) = 2
    /\ Len(entities) >= 2

\* a clone that a level reset cleared stays out of the game
C20_Cleared ==
    \A c \in cloneLog.cleared :
        /\ c \notin SeqToSet(frozenClones)
        /\ c \notin SeqToSet(entities)
        /\ \A k \in DOMAIN calls : calls[k].with # c /\ calls[k].entity # c

\* a timer firing for a cleared clone leaves the live game as it is
C20_TimerStep ==
    (lastOp'.op = "cloneTimer" /\ lastOp'.clone \in cloneLog.cleared) =>
        UNCHANGED <<frozenClones, entities, coins, platforms, player, score,
                    subscriptions, placeCooldown, isGameRunning>>

\* C20: after a level reset or advance has cleared a frozen clone, the timers
\* still pending for it fire without effect on the live game: the clone is
\* not put back into frozenClones or the registry, never collides with the
\* player, and no entity of the new level is removed
C20_Cancellation == []C20_Cleared /\ [][C20_TimerStep]_vars

\* the timer between two blinks of a clone has fired after a reset cleared
\* the clone in the middle of its self-destruct sequence
C20_Witness ==
    /\ lastOp.op = "cloneTimer"
    /\ lastOp.kind = "blink"
    /\ lastOp.clone \in cloneLog.cleared
    /\ gen = 2


\* the player and the enemy had the same position when the last sweep began
Coincident ==
    /\ lastOp.op = "checkCollisions"
    /\ lastOp.before.x = TheEnemy.x
    /\ lastOp.before.y = TheEnemy.y

\* C21: a collision with an enemy at the player's own position (distance 0)
\* applies no bounce: applyBounce is not called and the velocity is the one
\* static resolution left; the score penalty and the static resolution are
\* applied all the same.
C21_CoincidentEnemy ==
    Coincident =>
        /\ calls = <<[entity |-> PlayerEnt, with |-> TheEnemy]>>
        /\ lastOp.bounces = <<>>
        /\ score = lastOp.score - EnemyPenalty
        /\ Len(resolved) = 1
        /\ resolved[1].before = lastOp.before
        /\ resolved[1].box = GetCollisionBox(TheEnemy, lastOp.before)
        /\ player = HandleStaticCollision(lastOp.before, resolved[1].box)
        /\ Abs(player.vx) <= MaxSpeed * VelScale
        /\ Abs(player.vy) <= MaxFallSpeed * VelScale

\* a coincident collision of a moving player
C21_Witness ==
    /\ Coincident
    /\ lastOp.before.vx # 0
    /\ lastOp.before.vy # 0
    /\ score = -EnemyPenalty


\* the entity as the last operation found it, and its animation object
EntityBefore == lastOp.before

AnimationBefore == lastOp.before.customAnimation

\* the last operation was an update that found animation object running
UpdatedAnimation ==
    /\ lastOp.op = "entityUpdate"
    /\ EntityBefore.isPlayingCustomAnimation
    /\ ~AnimationBefore.null

\* that update advanced the animation past its last frame
AdvancedPastLastFrame ==
    /\ UpdatedAnimation
    /\ AnimationBefore.timer + lastOp.dt >= AnimationBefore.frameSpeed
    /\ AnimationBefore.currentFrame =
           AnimationBefore.startFrame + AnimationBefore.frameCount - 1

\* onComplete was invoked by the last operation
CompletedNow == \E k \in DOMAIN lastOp.events : lastOp.events[k].ev = "complete"

\* C22: a playback with loop=false that runs to its end invokes onComplete
\* exactly once, on the update that advances past frame
\* startFrame+frameCount-1, and never on a later update; with loop=true
\* onComplete is never invoked and the playback wraps back to startFrame.
C22_OnCompleteOnce ==
    /\ rs.phase = "entity" => \A i \in AnimationIds : rs.completions[i] <= 1
    /\ lastOp.op \in {"playCustomAnimation", "stopCustomAnimation"} => ~CompletedNow
    /\ lastOp.op = "entityUpdate" /\ CompletedNow =>
           /\ AdvancedPastLastFrame
           /\ ~AnimationBefore.loop
           /\ \A k \in DOMAIN lastOp.events :
                  lastOp.events[k].ev = "complete" => lastOp.events[k].id = AnimationBefore.id
    /\ AdvancedPastLastFrame /\ ~AnimationBefore.loop
           /\ AnimationBefore.onComplete # "none" =>
           /\ CompletionsIn(lastOp.events, AnimationBefore.id) = 1
           /\ rs.completions[AnimationBefore.id] = 1
    /\ AdvancedPastLastFrame /\ AnimationBefore.loop =>
           /\ lastOp.events = <<>>
           /\ rs.completions[AnimationBefore.id] = 0
           /\ anim[TheEntity].isPlayingCustomAnimation
           /\ anim[TheEntity].customAnimation =
                  [AnimationBefore EXCEPT !.currentFrame = AnimationBefore.startFrame,
                                          !.timer = 0]
           /\ anim[TheEntity].animationFrame = AnimationBefore.startFrame

\* an animation of three frames that began at frame 2 has completed,
\* leaving frame 4 showing, and an update was made after that
C22_Witness ==
    /\ rs.phase = "entity"
    /\ rs.completions[1] = 1
    /\ lastOp.op = "entityUpdate"
    /\ ~CompletedNow
    /\ EntityBefore.customAnimation.null
    /\ ~EntityBefore.isPlayingCustomAnimation
    /\ ~EntityBefore.animationEnabled
    /\ EntityBefore.animationFrame = 4


\* playCustomAnimation was called by the last operation, by the client or
\* from inside an onComplete callback
PlayedNow == \E k \in DOMAIN lastOp.events : lastOp.events[k].ev = "play"

\* the animation object the entity holds is the one made by call number id,
\* at its own start frame with timer 0
PlaysFromStart(id) ==
    LET e == anim[TheEntity]
    IN /\ e.isPlayingCustomAnimation
       /\ ~e.customAnimation.null
       /\ e.customAnimation.id = id
       /\ e.customAnimation.currentFrame = e.customAnimation.startFrame
       /\ e.customAnimation.timer = 0
       /\ ~e.customAnimation.hasCompleted
       /\ e.animationFrame = e.customAnimation.startFrame

\* C23: playCustomAnimation called while an animation is playing replaces
\* it: the earlier animation's onComplete is never invoked, and the new
\* animation is the one the entity plays, from its own startFrame with
\* timer 0; the same when the call comes from inside the earlier
\* animation's onComplete.
C23_ReplaceAtomically ==
    rs.phase = "entity" =>
        /\ \A i \in rs.replaced : rs.completions[i] = 0
        /\ lastOp.op \in {"playCustomAnimation", "entityUpdate"} /\ PlayedNow =>
               PlaysFromStart(rs.plays)


\* C24: an Entity.update call made while isPlayingCustomAnimation is true
\* does not advance the looping animation: animationTimer does not step,
\* animationFrame is moved by a custom animation object only, and
\* animationLoopCallback is not invoked.
C24_CustomPreempts ==
    lastOp.op = "entityUpdate" /\ EntityBefore.isPlayingCustomAnimation =>
        /\ anim[TheEntity].animationTimer = EntityBefore.animationTimer
        /\ \A k \in DOMAIN lastOp.events : lastOp.events[k].ev # "loop"
        /\ anim[TheEntity].animationFrame # EntityBefore.animationFrame =>
               ~AnimationBefore.null


\* the entities loadLevel makes from level 1's definition in the current load
Level1Platforms == [k \in DOMAIN Level1.platforms |-> MkPlatform(gen, Level1.platforms[k])]

Level1Coins == {MkCoin(gen, Level1.coins[k]) : k \in DOMAIN Level1.coins}

\* C25: with currentLevel outside 1..maxLevel the level is loaded from the
\* default definition (level 1): its platforms, coins and spawn, at init and
\* at every reset; and every update() made while the game runs goes through
\* to the collision pass.
C25_DefaultLevel ==
    rs.phase = "levels" /\ currentLevel \notin 1..MaxLevel =>
        /\ platforms = Level1Platforms
        /\ SeqToSet(coins) \subseteq Level1Coins
        /\ totalCoins = Len(Level1.coins)
        /\ PlayerEnt \in SeqToSet(entities)
        /\ SeqToSet(platforms) \subseteq SeqToSet(entities)
        /\ lastOp.op \in {"init", "resetLevel"} =>
               /\ player.x = Level1.player.x
               /\ player.y = Level1.player.y
               /\ SeqToSet(coins) = Level1Coins
        /\ lastOp.op = "update" /\ lastOp.ran =>
               /\ frames > 0
               /\ sweepStart # NoSweep
               /\ sweepStart.entities # <<>>

\* the game started at level 7 has run to its last frame: the player stands
\* on level 1's platform and has collected level 1's coin
C25_Witness ==
    /\ rs.phase = "levels"
    /\ currentLevel = MaxLevel + 4
    /\ lastOp.op = "update"
    /\ lastOp.ran
    /\ frames = MaxLevelFrames
    /\ player.onGround
    /\ score = CoinScore


\* the one handleStaticCollision call of SpecResolve met equal overlaps
TiedOverlaps ==
    /\ rs.phase = "resolved"
    /\ Len(resolved) = 1
    /\ OverlapX(GetCollisionBox(PlayerEnt, resolved[1].before), resolved[1].box)
         = OverlapY(GetCollisionBox(PlayerEnt, resolved[1].before), resolved[1].box)

\* C26: with overlapX equal to overlapY handleStaticCollision takes the
\* vertical branch: the player is set against the box's top or bottom edge
\* with velocity.y = 0 (grounded when it came from above), and player.x,
\* velocity.x and every other field are unchanged.
C26_TieBreak ==
    TiedOverlaps =>
        LET before == resolved[1].before
            sb == resolved[1].box
            above == GetCollisionBox(PlayerEnt, before).y < sb.y
        IN /\ player.x = before.x
           /\ player.vx = before.vx
           /\ player.vy = 0
           /\ player.y = IF above
                         THEN sb.y - (PlayerSize - 12) - PlayerBoundsOffsetY
                         ELSE sb.y + sb.height - PlayerBoundsOffsetY
           /\ player.onGround = (above \/ before.onGround)
           /\ player = [before EXCEPT !.y = player.y, !.vy = 0,
                                      !.onGround = player.onGround]

\* a tie of two pixels at the tile's upper left corner, the player in the
\* air and moving sideways
C26_Witness ==
    /\ TiedOverlaps
    /\ resolved[1].before.x = 50
    /\ resolved[1].before.y = 38
    /\ resolved[1].before.vx # 0
    /\ ~resolved[1].before.onGround
    /\ player.onGround


\* the k-th handleStaticCollision call of the last sweep was made for a
\* frozen clone and found the player grounded
GroundedOnClone(k) ==
    /\ \E c \in DOMAIN cloneFields : resolved[k].box = GetCollisionBox(c, player)
    /\ resolved[k].before.onGround

\* C27: a collision callback for a FrozenClone that finds the player
\* grounded snaps the player onto the clone's top edge with onGround = true
\* and velocity.y = 0 and leaves player.x and velocity.x alone, whatever the
\* overlaps are.
C27_CloneSnap ==
    \A k \in DOMAIN resolved :
        GroundedOnClone(k) =>
            /\ resolved[k].after.x = resolved[k].before.x
            /\ resolved[k].after.vx = resolved[k].before.vx
            /\ resolved[k].after.vy = 0
            /\ resolved[k].after.onGround
            /\ resolved[k].after.y =
                   resolved[k].box.y - (PlayerSize - 12) - PlayerBoundsOffsetY


\* the last operation was an 'up' input that set velocity.y to jumpVelocity
JumpedNow ==
    /\ lastOp.op = "input"
    /\ lastOp.direction = "up"
    /\ CanJump(lastOp.before)

\* C28: between two consecutive Player.update calls that find the player
\* grounded, and before the first of them, onJump is invoked at most once,
\* however many 'up' inputs set velocity.y to jumpVelocity; it is invoked
\* by a jump that finds midJump false and by no other input.
C28_OnJumpRisingEdge ==
    rs.phase = "jump" =>
        /\ rs.onJumpCalls <= 1
        /\ lastOp.op = "input" =>
               (lastOp.onJump <=> JumpedNow /\ ~lastOp.before.midJump)
        /\ JumpedNow =>
               /\ player.vy = JumpVelocity * VelScale
               /\ player.midJump

\* a second 'up' input set velocity.y to jumpVelocity after onJump had been
\* called for the first, and was not announced
C28_Witness ==
    /\ rs.phase = "jump"
    /\ JumpedNow
    /\ ~lastOp.onJump
    /\ rs.onJumpCalls = 1
    /\ rs.jumps = 2

\* C30: once an 'up' input has set velocity.y to jumpVelocity, no later
\* 'up' input does so again before collision resolution has set
\* physics.onGround.
C30_NoDoubleJump ==
    rs.phase = "jump" => rs.jumps <= 1


\* C29: |player.velocity.x| <= maxSpeed in every state reached through
\* applyInput, Player.update, the collision callback (static resolution and
\* enemy bounce) and resetToPosition.
C29_SpeedBound == Abs(player.vx) <= MaxSpeed * VelScale

\* an enemy bounce whose vector alone is beyond maxSpeed left the player at
\* exactly maxSpeed sideways, and an input in the same direction kept it there
C29_Witness ==
    /\ rs.phase = "enemy"
    /\ lastOp.op = "input"
    /\ lastOp.direction \in {"left", "right"}
    /\ Abs(lastOp.before.vx) = MaxSpeed * VelScale
    /\ player.vx = lastOp.before.vx
    /\ calls # <<>>
    /\ score = -EnemyPenalty


\* C31: after resetToPosition the jump state is clean: the update that
\* follows a level reset does not arm the coyote timer from the grounded flag
\* remembered before the reset, and an 'up' input that follows the reset
\* does not start a jump.
C31_CleanJumpState ==
    [][lastOp.op \in {"resetLevel", "restartGame"} =>
          /\ (lastOp'.op = "update" /\ lastOp'.ran => player'.coyoteTimer = 0)
          /\ (lastOp'.op = "input" => player'.vy = player.vy)]_vars


\* C32: the delayed nextLevel() or restartGame() of a completed level loads
\* a level only if, when its timer fires, every coin of the current level
\* has been collected.
C32_AdvanceOnlyWhenComplete ==
    [][lastOp'.op \in {"nextLevel", "restartGame"} /\ gen' # gen =>
          Len(coins) = 0 /\ totalCoins > 0]_vars


\* the pending timers of checkLevelCompletion
CompletionTimers == {k \in DOMAIN timers : timers[k].kind \in {"nextLevel", "restartGame"}}

\* C33: at any time at most one delayed nextLevel() or restartGame() is
\* pending.
C33_OneCompletionTimer == Cardinality(CompletionTimers) <= 1


\* the level was reset while the game was paused, and nothing has happened
\* since
ResetWhilePaused ==
    /\ lastOp.op = "resetLevel"
    /\ timers # <<>>
    /\ timers[Len(timers)].kind = "resume"
    /\ ~timers[Len(timers)].wasRunning

\* togglePause() was called with a resume timer pending, and that timer
\* fires next
ResumeAfterToggle == lastOp.op = "togglePause" /\ lastOp'.op = "resume"

\* C34: a resume timer that fires after a togglePause() leaves isGameRunning
\* as togglePause() set it, and a game that was paused when resetLevel() was
\* called performs no tick before the user resumes it.
C34_PauseSurvivesResume ==
    [][/\ ResumeAfterToggle => isGameRunning' = lastOp.set
       /\ ResetWhilePaused /\ lastOp'.op = "update" => ~lastOp'.ran]_vars


\* a placed clone is in the game
ClonePlaced == frozenClones # <<>>

\* no clone is left in frozenClones or in the collision engine
ClonesGone ==
    /\ cloneLog.places > 0
    /\ frozenClones = <<>>
    /\ \A k \in DOMAIN entities : entities[k].kind # "FrozenClone"

\* C35: a clone placed by handlePlaceAction() is eventually removed from
\* frozenClones and unregistered from the collision engine, with or without
\* a removeOldestFrozenClone() request at any point of its life, as long as
\* frames keep coming and due timers fire.
C35_EventuallyRemoved == ClonePlaced ~> ClonesGone

\* the clone is gone through the callback of a removal request that came
\* after its self-destruct sequence had begun, between two blinks
C35_Witness ==
    /\ rs.phase = "remove"
    /\ ClonesGone
    /\ cloneLog.destroyed = <<>>
    /\ \E c \in DOMAIN cloneFields :
           /\ cloneFields[c].isMarkedForDestruction
           /\ cloneFields[c].animationLoopCallback = "remove"
           /\ cloneFields[c].destructionAnimationCount \in 2..4


\* two boxes share a region of positive area
PositiveOverlap(a, b) ==
    /\ a.x < b.x + b.width
    /\ b.x < a.x + a.width
    /\ a.y < b.y + b.height
    /\ b.y < a.y + a.height

\* C36: after handleStaticCollision(player, e), called with overlapping
\* boxes, the player's collision box and e's collision box share no region
\* of positive area.
C36_Separated ==
    (rs.phase = "resolved" /\ PositiveOverlap(BoxBefore, rs.box))
    => ~PositiveOverlap(BoxAfter, rs.box)

\* a player sunk deep into the floor of level 1, nearer to its right end than
\* to its top, was moved out sideways and touches the floor's right edge
C36_Witness ==
    /\ rs.phase = "resolved"
    /\ rs.box = Level1.platforms[1]
    /\ PositiveOverlap(BoxBefore, rs.box)
    /\ BoxBefore.y >= rs.box.y
    /\ BoxAfter.x = rs.box.x + rs.box.width
    /\ BoxAfter.y = BoxBefore.y


\* the subscriptions the collision engine holds for the player
PlayerSubscriptions == {k \in DOMAIN subscriptions : subscriptions[k].entity = PlayerEnt}

\* the callbacks the last sweep made with entity e
ResponsesTo(e) == {k \in DOMAIN calls : calls[k].with = e}

\* C37: after any sequence of level loads the engine holds exactly one
\* subscription for the player, and a sweep answers every overlap of the
\* player with a coin, a platform, a clone or an enemy with one callback: no
\* such entity is handed to the callback (and so scored or resolved) twice.
C37_OneResponse ==
    /\ Cardinality(PlayerSubscriptions) = 1
    /\ \A k \in DOMAIN calls :
         calls[k].with # PlayerEnt => Cardinality(ResponsesTo(calls[k].with)) = 1


\* the model state the game owns: everything but the bookkeeping of the last
\* call and the clock of the frame loop
ModelState ==
    <<player, coins, platforms, anim, entities, subscriptions, score, isGameRunning,
      currentLevel, totalCoins, isLevelCompleting, timers, gen, frozenClones,
      cloneFields, placeCooldown, airTime>>

\* C38: while isGameRunning is false, update and applyPlayerInput change
\* nothing: the player, placeCooldown, the score, the entity lists and the
\* collision registry keep their values and no collision callback is made.
C38_PausedIsInert ==
    [][~isGameRunning /\ lastOp'.op \in {"update", "input"}
         => /\ UNCHANGED ModelState
            /\ calls' = <<>>
            /\ resolved' = <<>>]_vars

\* the game ran a frame, was paused in the air, and an update or an input
\* arrived while it was paused
C38_Witness ==
    /\ ~isGameRunning
    /\ frames > 0
    /\ ~player.onGround
    /\ lastOp.op \in {"update", "input"}
    /\ ~lastOp.ran
=============================================================================
